---- MODULE Spec2Model ----
(***************************************************************************)
(* Quorum coordination of the replicated key-value store.                  *)
(*                                                                         *)
(* Two topologies share the versioned store (KVStore) and differ in the    *)
(* coordinator: leader-follower (src/leader-follower/kv_store.go, one      *)
(* LeaderNode and FollowerNodes) and leaderless                            *)
(* (src/leaderless/kv_store.go, symmetric LeaderlessNodes).  A behaviour   *)
(* fixes the topology and the quorum sizes w and r at construction and     *)
(* then runs a bounded number of concurrent Write and Read requests; each  *)
(* request advances at the points where the code blocks on a peer call.    *)
(***************************************************************************)
EXTENDS Integers, Sequences, FiniteSets, TLC

\* ---------------------------------------------------------------- bounds
NumNodes == 3
MaxWrites == 2
MaxReads == 1
MaxConcurrent == 2
MaxReplicates == 2
MaxRequests == 3
LiveRequests == 2
MaxCalls == 3
MaxVersion == 2

\* ------------------------------------------------------------- constants
Nodes == 1..NumNodes
Leader == 1
EmptyKey == ""
Keys == {EmptyKey, "a", "b"}
WriteIds == 1..MaxWrites
ReadIds == 1..MaxReads
Nil == 0

StatusOK == 200
StatusCreated == 201
StatusBadRequest == 400
StatusForbidden == 403
StatusNotFound == 404
StatusInternalServerError == 500

VARIABLES
    topology,   \* "lf" (leader-follower) or "ll" (leaderless), fixed at start
    w,          \* write quorum of every coordinator (LeaderNode.w / LeaderlessNode.w)
    r,          \* read quorum of every coordinator (LeaderNode.r / LeaderlessNode.r)
    kvStore,    \* kvStore[n]: the KVStore of node n: [store, versionCounter]
    writes,     \* writes[i]: the i-th Write request (a goroutine running Write)
    reads,      \* reads[j]: the j-th Read request (a goroutine running Read)
    sent,       \* history: sent[i], the peers write i sent a replicate request to, in order
    applied,    \* history: applied[i], the nodes that applied the record of write i
    overlapped, \* history: overlapped[i], another write to the same key was in flight with i
                \* (sent, applied and overlapped describe a write in progress: they are
                \* cleared when the write returns, as its locals are)
    queried,    \* history: queried[j], the peers read j sent a read request to
    floor,      \* history: floor[j], the greatest version acknowledged for read j's key
                \* before read j began
    backend,    \* the two storage backends side by side: an in-memory KVStore and
                \* the bucket of an S3Store, with the Set calls made on both
    channel,    \* channel[j]: the channel results of leaderless read j where it is
                \* modelled on its own: its capacity, the results sent and not yet
                \* received, the goroutines that have not sent yet and the number
                \* of results received
    later,      \* history: later[i], whether another Set on the key of write i was made
                \* at the coordinator of write i after the local Set of write i:
                \* "no", "in flight" (before write i returned) or "returned"
    replicated  \* history: the POST /replicate requests that came from outside the
                \* cluster: their number, and the last of them with its answer, the
                \* store of its node after it was first applied (once) and the number
                \* of times it was applied in a row with no other Set on that node

vars == <<topology, w, r, kvStore, writes, reads, sent, applied, overlapped, queried, floor,
          replicated, later, channel, backend>>

\* followerURLs of the leader; peerURLs of a leaderless node (all other nodes,
\* in the order of the deployment's PEER_URLS)
RECURSIVE Ascending(_)
Ascending(S) ==
    IF S = {} THEN <<>>
    ELSE LET m == CHOOSE x \in S : \A y \in S : x <= y
         IN <<m>> \o Ascending(S \ {m})

followerURLs == Ascending(Nodes \ {Leader})
peerURLs(n) == Ascending(Nodes \ {n})

\* the replica set a coordinator n fans out to
ReplicaSet(n) == IF topology = "lf" THEN followerURLs ELSE peerURLs(n)

\* ---------------------------------------------------------------- KVStore
KVPair(value, version) == [Value |-> value, Version |-> version]

NewKVStore == [store |-> <<>>, versionCounter |-> 0]

\* the argument version *int of KVStore.Set: nil, or a pointer to an int
NoVersion == <<>>
Explicit(version) == <<version>>

\* the version KVStore.Set stores and returns
SetVersion(kv, version) ==
    IF version = NoVersion THEN kv.versionCounter + 1 ELSE version[1]

\* a Set that advances the counter on every call
SetCounting(kv, key, value, version) ==
    LET v == SetVersion(kv, version)
    IN [store |-> [k \in DOMAIN kv.store \cup {key} |->
                      IF k = key THEN KVPair(value, v) ELSE kv.store[k]],
        versionCounter |-> IF v > kv.versionCounter THEN v
                           ELSE kv.versionCounter + 1]

\* a Set whose counter follows the explicit version, downwards too
SetCounterFollows(kv, key, value, version) ==
    LET v == SetVersion(kv, version)
    IN [store |-> [k \in DOMAIN kv.store \cup {key} |->
                      IF k = key THEN KVPair(value, v) ELSE kv.store[k]],
        versionCounter |-> v]

\* a Set that keeps the record it has when that one has the greater version
SetIfNewer(kv, key, value, version) ==
    LET v == SetVersion(kv, version)
    IN [store |-> [k \in DOMAIN kv.store \cup {key} |->
                      IF k = key /\ ~(k \in DOMAIN kv.store /\ kv.store[k].Version > v)
                      THEN KVPair(value, v) ELSE kv.store[k]],
        versionCounter |-> IF v > kv.versionCounter THEN v ELSE kv.versionCounter]

\* a Set that replaces the whole map by the one record
SetAlone(kv, key, value, version) ==
    LET v == SetVersion(kv, version)
    IN [store |-> [k \in {key} |-> KVPair(value, v)],
        versionCounter |-> IF version = NoVersion THEN kv.versionCounter + 1
                           ELSE IF v > kv.versionCounter THEN v
                           ELSE kv.versionCounter]

\* a Set whose increment of the counter is lost
SetLostUpdate(kv, key, value, version) ==
    LET v == SetVersion(kv, version)
    IN [store |-> [k \in DOMAIN kv.store \cup {key} |->
                      IF k = key THEN KVPair(value, v) ELSE kv.store[k]],
        versionCounter |-> IF version # NoVersion /\ v > kv.versionCounter THEN v
                           ELSE kv.versionCounter]

\* a Set whose counter ignores the explicit versions
SetCounterOwn(kv, key, value, version) ==
    LET v == SetVersion(kv, version)
    IN [store |-> [k \in DOMAIN kv.store \cup {key} |->
                      IF k = key THEN KVPair(value, v) ELSE kv.store[k]],
        versionCounter |-> IF version = NoVersion THEN kv.versionCounter + 1
                           ELSE kv.versionCounter]

\* the KVStore after Set(key, value, version)
Set(kv, key, value, version) ==
    LET v == SetVersion(kv, version)
    IN [store |-> [k \in DOMAIN kv.store \cup {key} |->
                      IF k = key THEN KVPair(value, v) ELSE kv.store[k]],
        versionCounter |-> IF version = NoVersion THEN kv.versionCounter + 1
                           ELSE IF v > kv.versionCounter THEN v
                           ELSE kv.versionCounter]

\* KVStore.Get: (pair, exists)
Exists(kv, key) == key \in DOMAIN kv.store
Get(kv, key) == IF Exists(kv, key) THEN kv.store[key] ELSE KVPair("", 0)

\* the value the client sends with write i: every write carries its own value
Value(i) == "v" \o ToString(i)

\* ---------------------------------------------------------------- S3Store
\* S3Store.Get on a bucket (a function from the keys that have an object to the
\* KVPair stored in it): (pair, exists)
S3Exists(bucket, key) == key \in DOMAIN bucket
S3Get(bucket, key) == IF S3Exists(bucket, key) THEN bucket[key] ELSE KVPair("", 0)

\* the version S3Store.Set computes: without a version, the version of the
\* object the key has plus one, or 1 when it has none; else the given version
S3SetVersion(bucket, key, version) ==
    IF version = NoVersion
    THEN (IF S3Exists(bucket, key) THEN S3Get(bucket, key).Version + 1 ELSE 1)
    ELSE version[1]

\* the bucket after PutObject(key, {value, v})
PutObject(bucket, key, value, v) ==
    [k \in DOMAIN bucket \cup {key} |-> IF k = key THEN KVPair(value, v) ELSE bucket[k]]

\* the Set calls made on the two backends
CallIds == 1..MaxCalls
NewCall == [pc |-> "Idle", key |-> "", version |-> NoVersion, v |-> 0,
            kvRet |-> 0, s3Ret |-> 0, alone |-> TRUE]
NewBackend == [kv |-> NewKVStore, s3 |-> <<>>, calls |-> [c \in CallIds |-> NewCall]]

\* ------------------------------------------------------------------ Init
\* no channel made yet
NoChannel == [cap |-> 0, buf |-> <<>>, tasks |-> {}, taken |-> 0]

NewWrite ==
    [pc |-> "Idle", node |-> Nil, key |-> EmptyKey, version |-> 0,
     next |-> 1, successfulWrites |-> 0, status |-> 0]

NewRead ==
    [pc |-> "Idle", node |-> Nil, key |-> EmptyKey,
     nodesRead |-> 0, results |-> <<>>, next |-> 1,
     pending |-> {}, i |-> 0,
     status |-> 0, value |-> "", version |-> 0]

NoReplicate ==
    [count |-> 0, node |-> Nil, key |-> EmptyKey, value |-> "", version |-> 0,
     status |-> 0, once |-> NewKVStore, times |-> 0]

Init ==
    /\ replicated = NoReplicate
    /\ backend = NewBackend
    /\ channel = [j \in ReadIds |-> NoChannel]
    /\ later = [i \in WriteIds |-> "no"]
    /\ topology \in {"lf", "ll"}
    /\ w \in 1..NumNodes
    /\ r \in 1..NumNodes
    /\ kvStore = [n \in Nodes |-> NewKVStore]
    /\ writes = [i \in WriteIds |-> NewWrite]
    /\ reads = [j \in ReadIds |-> NewRead]
    /\ sent = [i \in WriteIds |-> <<>>]
    /\ applied = [i \in WriteIds |-> {}]
    /\ overlapped = [i \in WriteIds |-> FALSE]
    /\ queried = [j \in ReadIds |-> {}]
    /\ floor = [j \in ReadIds |-> 0]

\* the nodes that accept a client request as coordinator
Coordinators == IF topology = "lf" THEN {Leader} ELSE Nodes

\* the requests a coordinator is working on: at most MaxConcurrent at a time
Active ==
    Cardinality({i \in WriteIds : writes[i].pc = "Replicating"})
    + Cardinality({j \in ReadIds : reads[j].pc = "Collecting"})

\* keys are opaque to the code (compared for equality and with ""), so the
\* requests name "a" before they name "b"
UsedKeys ==
    {writes[i].key : i \in WriteIds} \cup {reads[j].key : j \in ReadIds}
    \cup {replicated.key}
KeyInOrder(key) == key = "b" => "a" \in UsedKeys

\* the requests the cluster has received: at most MaxRequests in a behaviour
Requests ==
    Cardinality({i \in WriteIds : writes[i].pc # "Idle"})
    + Cardinality({j \in ReadIds : reads[j].pc # "Idle"})
    + replicated.count

\* request ids are handed out in the order the requests arrive
Arrives(i) ==
    /\ writes[i].pc = "Idle"
    /\ \A i2 \in WriteIds : i2 < i => writes[i2].pc # "Idle"
    /\ Active < MaxConcurrent
    /\ Requests < MaxRequests
ArrivesRead(j) ==
    /\ reads[j].pc = "Idle"
    /\ \A j2 \in ReadIds : j2 < j => reads[j2].pc # "Idle"
    /\ Active < MaxConcurrent
    /\ Requests < MaxRequests

\* a Set on node n by a write ends the run of the last outside replicate
\* request on n
Touched(n) ==
    IF replicated.node = n THEN [replicated EXCEPT !.times = 0] ELSE replicated

\* later, after a Set on key at node n that is not the local Set of write i0
Later(i0, n, key) ==
    [i \in WriteIds |->
        IF /\ i # i0
           /\ writes[i].pc \in {"Replicating", "Acknowledged", "QuorumFailed"}
           /\ writes[i].node = n /\ writes[i].key = key
           /\ later[i] = "no"
        THEN (IF writes[i].pc = "Replicating" THEN "in flight" ELSE "returned")
        ELSE later[i]]

\* the writes to key that are between their local apply and their return
InFlight(key) == {i \in WriteIds : writes[i].pc = "Replicating" /\ writes[i].key = key}

\* ----------------------------------------------------------------- Write
\* a Write that checks the key only after the local Set
WriteEmptyKeyLate(i, n) ==
    /\ Arrives(i)
    /\ n \in Coordinators
    /\ kvStore' = [kvStore EXCEPT ![n] = Set(@, EmptyKey, Value(i), NoVersion)]
    /\ writes' = [writes EXCEPT ![i] =
            [@ EXCEPT !.pc = "Rejected", !.node = n, !.key = EmptyKey,
                      !.version = 0, !.status = StatusBadRequest]]
    /\ UNCHANGED <<backend, channel, later, replicated, topology, w, r, reads, sent, applied, overlapped, queried, floor>>

\* Write, key == "": return 400, 0 before anything is touched
WriteEmptyKey(i, n) ==
    /\ Arrives(i)
    /\ n \in Coordinators
    /\ writes' = [writes EXCEPT ![i] =
            [@ EXCEPT !.pc = "Rejected", !.node = n, !.key = EmptyKey,
                      !.version = 0, !.status = StatusBadRequest]]
    /\ UNCHANGED <<backend, channel, later, replicated, topology, w, r, kvStore, reads, sent, applied, overlapped, queried, floor>>

\* a Write whose local Set reaches every replica in the same instant
WriteLocalEverywhere(i, n, key) ==
    /\ Arrives(i)
    /\ n \in Coordinators
    /\ key # EmptyKey
    /\ KeyInOrder(key)
    /\ kvStore' = [m \in Nodes |->
            IF m = n THEN Set(kvStore[m], key, Value(i), NoVersion)
            ELSE Set(kvStore[m], key, Value(i),
                     Explicit(SetVersion(kvStore[n], NoVersion)))]
    /\ writes' = [writes EXCEPT ![i] =
            [@ EXCEPT !.pc = "Replicating", !.node = n, !.key = key,
                      !.version = SetVersion(kvStore[n], NoVersion),
                      !.next = 1, !.successfulWrites = 1]]
    /\ applied' = [applied EXCEPT ![i] = {n}]
    /\ overlapped' = [i2 \in WriteIds |->
            IF InFlight(key) = {} THEN overlapped[i2]
            ELSE overlapped[i2] \/ i2 = i \/ i2 \in InFlight(key)]
    /\ replicated' = Touched(n)
    /\ later' = Later(i, n, key)
    /\ UNCHANGED <<backend, channel, topology, w, r, reads, sent, queried, floor>>

\* a Write that numbers the versions of every key on their own
WriteLocalPerKey(i, n, key) ==
    /\ Arrives(i)
    /\ n \in Coordinators
    /\ key # EmptyKey
    /\ KeyInOrder(key)
    /\ kvStore' = [kvStore EXCEPT ![n] =
            Set(@, key, Value(i), Explicit(Get(kvStore[n], key).Version + 1))]
    /\ writes' = [writes EXCEPT ![i] =
            [@ EXCEPT !.pc = "Replicating", !.node = n, !.key = key,
                      !.version = Get(kvStore[n], key).Version + 1,
                      !.next = 1, !.successfulWrites = 1]]
    /\ applied' = [applied EXCEPT ![i] = {n}]
    /\ overlapped' = [i2 \in WriteIds |->
            IF InFlight(key) = {} THEN overlapped[i2]
            ELSE overlapped[i2] \/ i2 = i \/ i2 \in InFlight(key)]
    /\ replicated' = Touched(n)
    /\ later' = Later(i, n, key)
    /\ UNCHANGED <<backend, channel, topology, w, r, reads, sent, queried, floor>>

\* Write, first half: version := kvStore.Set(key, value, nil); successfulWrites := 1
WriteLocal(i, n, key) ==
    /\ Arrives(i)
    /\ n \in Coordinators
    /\ key # EmptyKey
    /\ KeyInOrder(key)
    /\ kvStore' = [kvStore EXCEPT ![n] = Set(@, key, Value(i), NoVersion)]
    /\ writes' = [writes EXCEPT ![i] =
            [@ EXCEPT !.pc = "Replicating", !.node = n, !.key = key,
                      !.version = SetVersion(kvStore[n], NoVersion),
                      !.next = 1, !.successfulWrites = 1]]
    /\ applied' = [applied EXCEPT ![i] = {n}]
    /\ overlapped' = [i2 \in WriteIds |->
            IF InFlight(key) = {} THEN overlapped[i2]
            ELSE overlapped[i2] \/ i2 = i \/ i2 \in InFlight(key)]
    /\ replicated' = Touched(n)
    /\ later' = Later(i, n, key)
    /\ UNCHANGED <<backend, channel, topology, w, r, reads, sent, queried, floor>>

\* a leader loop without the W=1 return in front of it
LoopRunsNoShortcut(i) ==
    /\ writes[i].pc = "Replicating"
    /\ writes[i].next <= Len(ReplicaSet(writes[i].node))
    /\ topology = "lf" => (writes[i].successfulWrites < w \/ Len(sent[i]) = 0)

\* a leader loop without the early return
LoopRunsAll(i) ==
    /\ writes[i].pc = "Replicating"
    /\ writes[i].next <= Len(ReplicaSet(writes[i].node))
    /\ topology = "lf" => w # 1

\* the loop of Write still has a peer to contact
\* (leader: W=1 returns before the loop, and the loop returns once W is met;
\*  leaderless: the loop runs over every peer)
LoopRuns(i) ==
    /\ writes[i].pc = "Replicating"
    /\ writes[i].next <= Len(ReplicaSet(writes[i].node))
    /\ topology = "lf" => (w # 1 /\ writes[i].successfulWrites < w)

\* a peer that answers 201 to a replicate request without storing the record
ReplicateOKDropped(i) ==
    /\ LoopRuns(i)
    /\ LET wr == writes[i]
           peer == ReplicaSet(wr.node)[wr.next]
       IN /\ applied' = [applied EXCEPT ![i] = @ \cup {peer}]
          /\ sent' = [sent EXCEPT ![i] = Append(@, peer)]
          /\ writes' = [writes EXCEPT ![i] =
                  [@ EXCEPT !.next = @ + 1, !.successfulWrites = @ + 1]]
    /\ UNCHANGED <<backend, channel, later, replicated, topology, w, r, kvStore, reads, overlapped, queried, floor>>

\* a peer that stores the replicated value under a version of its own counter
ReplicateOKReversioned(i) ==
    /\ LoopRuns(i)
    /\ LET wr == writes[i]
           peer == ReplicaSet(wr.node)[wr.next]
       IN /\ kvStore' = [kvStore EXCEPT ![peer] = Set(@, wr.key, Value(i), NoVersion)]
          /\ applied' = [applied EXCEPT ![i] = @ \cup {peer}]
          /\ sent' = [sent EXCEPT ![i] = Append(@, peer)]
          /\ writes' = [writes EXCEPT ![i] =
                  [@ EXCEPT !.next = @ + 1, !.successfulWrites = @ + 1]]
          /\ replicated' = Touched(peer)
          /\ later' = Later(i, peer, wr.key)
    /\ UNCHANGED <<backend, channel, topology, w, r, reads, overlapped, queried, floor>>

\* a peer that stores the replicated record under the next version
ReplicateOKAhead(i) ==
    /\ LoopRuns(i)
    /\ LET wr == writes[i]
           peer == ReplicaSet(wr.node)[wr.next]
       IN /\ kvStore' = [kvStore EXCEPT ![peer] =
                            Set(@, wr.key, Value(i), Explicit(wr.version + 1))]
          /\ applied' = [applied EXCEPT ![i] = @ \cup {peer}]
          /\ sent' = [sent EXCEPT ![i] = Append(@, peer)]
          /\ writes' = [writes EXCEPT ![i] =
                  [@ EXCEPT !.next = @ + 1, !.successfulWrites = @ + 1]]
          /\ replicated' = Touched(peer)
          /\ later' = Later(i, peer, wr.key)
    /\ UNCHANGED <<backend, channel, topology, w, r, reads, overlapped, queried, floor>>

\* one iteration of the loop: replicateToFollower / replicateToPeer succeeds.
\* The peer's handleReplicate ran Replicate, i.e. kvStore.Set(key, value, &version),
\* and answered 201.
ReplicateOK(i) ==
    /\ LoopRuns(i)
    /\ LET wr == writes[i]
           peer == ReplicaSet(wr.node)[wr.next]
       IN /\ kvStore' = [kvStore EXCEPT ![peer] = Set(@, wr.key, Value(i), Explicit(wr.version))]
          /\ applied' = [applied EXCEPT ![i] = @ \cup {peer}]
          /\ sent' = [sent EXCEPT ![i] = Append(@, peer)]
          /\ writes' = [writes EXCEPT ![i] =
                  [@ EXCEPT !.next = @ + 1, !.successfulWrites = @ + 1]]
          /\ replicated' = Touched(peer)
          /\ later' = Later(i, peer, wr.key)
    /\ UNCHANGED <<backend, channel, topology, w, r, reads, overlapped, queried, floor>>

\* a failed replication that is counted as a success
ReplicateFailCounted(i) ==
    /\ LoopRuns(i)
    /\ LET wr == writes[i]
           peer == ReplicaSet(wr.node)[wr.next]
       IN /\ sent' = [sent EXCEPT ![i] = Append(@, peer)]
          /\ writes' = [writes EXCEPT ![i] =
                  [@ EXCEPT !.next = @ + 1, !.successfulWrites = @ + 1]]
    /\ UNCHANGED <<backend, channel, later, replicated, topology, w, r, kvStore, reads, applied, overlapped, queried, floor>>

\* a failed replication that ends the loop
ReplicateFailAbort(i) ==
    /\ LoopRuns(i)
    /\ LET wr == writes[i]
           peer == ReplicaSet(wr.node)[wr.next]
       IN /\ sent' = [sent EXCEPT ![i] = Append(@, peer)]
          /\ writes' = [writes EXCEPT ![i] =
                  [@ EXCEPT !.next = Len(ReplicaSet(wr.node)) + 1]]
    /\ UNCHANGED <<backend, channel, later, replicated, topology, w, r, kvStore, reads, applied, overlapped, queried, floor>>

\* a failed replication that is sent again to the same peer
ReplicateFailRetry(i) ==
    /\ LoopRuns(i)
    /\ LET wr == writes[i]
           peer == ReplicaSet(wr.node)[wr.next]
       IN sent' = [sent EXCEPT ![i] = Append(@, peer)]
    /\ UNCHANGED <<backend, channel, later, replicated, topology, w, r, kvStore, writes, reads, applied, overlapped, queried, floor>>

\* one iteration of the loop: the peer is unreachable (http.Post returns an error);
\* the error is dropped and the loop goes on
ReplicateFail(i) ==
    /\ LoopRuns(i)
    /\ LET wr == writes[i]
           peer == ReplicaSet(wr.node)[wr.next]
       IN /\ sent' = [sent EXCEPT ![i] = Append(@, peer)]
          /\ writes' = [writes EXCEPT ![i] = [@ EXCEPT !.next = @ + 1]]
    /\ UNCHANGED <<backend, channel, later, replicated, topology, w, r, kvStore, reads, applied, overlapped, queried, floor>>

\* a quorum check that is satisfied one success early
WriteStatusEarly(i) ==
    IF writes[i].successfulWrites + 1 >= w THEN StatusCreated
    ELSE StatusInternalServerError

\* the status Write returns when it leaves the loop
WriteStatus(i) ==
    IF writes[i].successfulWrites >= w THEN StatusCreated
    ELSE StatusInternalServerError

\* a Write that takes its local record back when the quorum is not met
WriteReturnRollback(i) ==
    /\ writes[i].pc = "Replicating"
    /\ ~LoopRuns(i)
    /\ writes' = [writes EXCEPT ![i] =
            [@ EXCEPT !.status = WriteStatus(i),
                      !.pc = IF WriteStatus(i) = StatusCreated
                             THEN "Acknowledged" ELSE "QuorumFailed",
                      !.next = 1, !.successfulWrites = 0]]
    /\ kvStore' = IF WriteStatus(i) = StatusCreated THEN kvStore
                  ELSE [kvStore EXCEPT ![writes[i].node].store =
                            [k \in DOMAIN @ \ {writes[i].key} |-> @[k]]]
    /\ sent' = [sent EXCEPT ![i] = <<>>]
    /\ applied' = [applied EXCEPT ![i] = {}]
    /\ overlapped' = [overlapped EXCEPT ![i] = FALSE]
    /\ UNCHANGED <<backend, channel, later, replicated, topology, w, r, reads, queried, floor>>

\* a Write that returns only when the quorum is met
WriteReturnOnSuccess(i) ==
    /\ writes[i].pc = "Replicating"
    /\ ~LoopRuns(i)
    /\ WriteStatus(i) = StatusCreated
    /\ writes' = [writes EXCEPT ![i] =
            [@ EXCEPT !.status = StatusCreated, !.pc = "Acknowledged",
                      !.next = 1, !.successfulWrites = 0]]
    /\ sent' = [sent EXCEPT ![i] = <<>>]
    /\ applied' = [applied EXCEPT ![i] = {}]
    /\ overlapped' = [overlapped EXCEPT ![i] = FALSE]
    /\ UNCHANGED <<backend, channel, later, replicated, topology, w, r, kvStore, reads, queried, floor>>

\* Write returns (201, version) or (500, version); its locals go with it
WriteReturn(i) ==
    /\ writes[i].pc = "Replicating"
    /\ ~LoopRuns(i)
    /\ writes' = [writes EXCEPT ![i] =
            [@ EXCEPT !.status = WriteStatus(i),
                      !.pc = IF WriteStatus(i) = StatusCreated
                             THEN "Acknowledged" ELSE "QuorumFailed",
                      !.next = 1, !.successfulWrites = 0]]
    /\ sent' = [sent EXCEPT ![i] = <<>>]
    /\ applied' = [applied EXCEPT ![i] = {}]
    /\ overlapped' = [overlapped EXCEPT ![i] = FALSE]
    /\ UNCHANGED <<backend, channel, later, replicated, topology, w, r, kvStore, reads, queried, floor>>

\* a follower that coordinates the write it was sent, as the leader would
handleSetAtFollower(i, n, key) ==
    /\ Arrives(i)
    /\ topology = "lf"
    /\ n \notin Coordinators
    /\ key # EmptyKey
    /\ KeyInOrder(key)
    /\ kvStore' = [kvStore EXCEPT ![n] = Set(@, key, Value(i), NoVersion)]
    /\ writes' = [writes EXCEPT ![i] =
            [@ EXCEPT !.pc = "Acknowledged", !.node = n, !.key = key,
                      !.version = SetVersion(kvStore[n], NoVersion),
                      !.status = StatusCreated]]
    /\ replicated' = Touched(n)
    /\ UNCHANGED <<backend, channel, later, topology, w, r, reads, sent, applied, overlapped, queried, floor>>

\* handleSet of the leader-follower server on a node whose nodeType is not
\* "leader": 403, whatever the key; Write is not called
handleSetForbidden(i, n, key) ==
    /\ Arrives(i)
    /\ topology = "lf"
    /\ n \notin Coordinators
    /\ KeyInOrder(key)
    /\ writes' = [writes EXCEPT ![i] =
            [@ EXCEPT !.pc = "Forbidden", !.node = n, !.key = key,
                      !.version = 0, !.status = StatusForbidden]]
    /\ UNCHANGED <<backend, channel, later, replicated, topology, w, r, kvStore, reads, sent, applied, overlapped,
                   queried, floor>>

\* the nodes whose handleReplicate applies the request: the followers, and
\* every leaderless node
Replicas == IF topology = "lf" THEN Nodes \ {Leader} ELSE Nodes

\* the bodies a POST /replicate can carry
Versions == 0..MaxVersion
Values == {Value(i) : i \in WriteIds}

\* handleReplicate for a request that some client sent to node n: the body is
\* decoded and Replicate runs kvStore.Set(key, value, &version); the answer is 201
handleReplicate(n, key, value, version) ==
    /\ replicated.count < MaxReplicates
    /\ Requests < MaxRequests
    /\ n \in Replicas
    /\ KeyInOrder(key)
    /\ kvStore' = [kvStore EXCEPT ![n] = Set(@, key, value, Explicit(version))]
    /\ LET again == /\ replicated.times >= 1
                    /\ replicated.node = n /\ replicated.key = key
                    /\ replicated.value = value /\ replicated.version = version
       IN replicated' =
            [count |-> replicated.count + 1,
             node |-> n, key |-> key, value |-> value, version |-> version,
             status |-> StatusCreated,
             once |-> IF again THEN replicated.once ELSE kvStore'[n],
             times |-> IF again THEN replicated.times + 1 ELSE 1]
    /\ later' = Later(Nil, n, key)
    /\ UNCHANGED <<backend, channel, topology, w, r, writes, reads, sent, applied, overlapped, queried, floor>>

\* handleReplicate of the leader-follower server on the leader: 403
handleReplicateForbidden(n) ==
    /\ replicated.count < MaxReplicates
    /\ Requests < MaxRequests
    /\ n \notin Replicas
    /\ replicated' = [NoReplicate EXCEPT !.count = replicated.count + 1,
                                         !.node = n, !.status = StatusForbidden]
    /\ UNCHANGED <<backend, channel, later, topology, w, r, kvStore, writes, reads, sent, applied, overlapped,
                   queried, floor>>

\* ------------------------------------------------------------------ Read
\* the greatest version among the acknowledged writes of key (0 when there is none)
AckedVersions(key) ==
    {writes[i].version : i \in {i2 \in WriteIds :
        writes[i2].pc = "Acknowledged" /\ writes[i2].key = key}}
MaxOf(S) == IF S = {} THEN 0 ELSE CHOOSE x \in S : \A y \in S : y <= x

\* keys a client can name in GET /get/{key}: the route needs a non-empty segment
ReadKeys == Keys \ {EmptyKey}

\* the loop "latest := results[0]; for pair in results: if pair.Version >
\* latest.Version then latest = pair", over results[from..]
RECURSIVE LatestFrom(_, _, _)
LatestFrom(results, from, latest) ==
    IF from > Len(results) THEN latest
    ELSE LatestFrom(results, from + 1,
                    IF results[from].Version > latest.Version
                    THEN results[from] ELSE latest)
\* a resolution in which the pair collected last wins among equal versions
RECURSIVE LatestFromLast(_, _, _)
LatestFromLast(results, from, latest) ==
    IF from > Len(results) THEN latest
    ELSE LatestFromLast(results, from + 1,
                        IF results[from].Version >= latest.Version
                        THEN results[from] ELSE latest)
LatestTieLast(results) == LatestFromLast(results, 1, results[1])
\* a resolution that takes the pair collected last instead of the greatest version
LatestLast(results) == results[Len(results)]
Latest(results) == LatestFrom(results, 1, results[1])

\* what Read returns once it has stopped collecting: (status, value, version)
ReadResult(nodesRead, results) ==
    IF nodesRead < r
    THEN [status |-> StatusInternalServerError, value |-> "", version |-> 0]
    ELSE IF Len(results) = 0
    THEN [status |-> StatusNotFound, value |-> "", version |-> 0]
    ELSE [status |-> StatusOK, value |-> Latest(results).Value,
          version |-> Latest(results).Version]

\* the greatest-version pair of key over all nodes
Newest(key) ==
    LET having == {m \in Nodes : Exists(kvStore[m], key)}
    IN Get(kvStore[CHOOSE m \in having : \A m2 \in having :
              Get(kvStore[m2], key).Version <= Get(kvStore[m], key).Version], key)

\* a Read with r == 1 that asks the peers as well
ReadLocalAsking(j, n, key) ==
    /\ ArrivesRead(j)
    /\ KeyInOrder(key)
    /\ n \in Coordinators
    /\ r = 1
    /\ LET found == \E m \in Nodes : Exists(kvStore[m], key)
       IN reads' = [reads EXCEPT ![j] =
            [@ EXCEPT !.pc = "Done", !.node = n, !.key = key,
                      !.status = IF found THEN StatusOK ELSE StatusNotFound,
                      !.value = IF found THEN Newest(key).Value ELSE "",
                      !.version = IF found THEN Newest(key).Version ELSE 0]]
    /\ floor' = [floor EXCEPT ![j] = MaxOf(AckedVersions(key))]
    /\ queried' = [queried EXCEPT ![j] = Nodes \ {n}]
    /\ UNCHANGED <<backend, channel, later, replicated, topology, w, r, kvStore, writes, sent, applied, overlapped>>

\* a Read with r == 1 served from the store of whichever node
ReadLocalAnywhere(j, n, key) ==
    /\ ArrivesRead(j)
    /\ KeyInOrder(key)
    /\ n \in Coordinators
    /\ r = 1
    /\ \E m \in Nodes :
          reads' = [reads EXCEPT ![j] =
            [@ EXCEPT !.pc = "Done", !.node = n, !.key = key,
                      !.status = IF Exists(kvStore[m], key) THEN StatusOK ELSE StatusNotFound,
                      !.value = Get(kvStore[m], key).Value,
                      !.version = Get(kvStore[m], key).Version]]
    /\ floor' = [floor EXCEPT ![j] = MaxOf(AckedVersions(key))]
    /\ UNCHANGED <<backend, channel, later, replicated, topology, w, r, kvStore, writes, sent, applied, overlapped, queried>>

\* a Read with r == 1 whose Get advances the version counter of the store
ReadLocalTouching(j, n, key) ==
    /\ ArrivesRead(j)
    /\ KeyInOrder(key)
    /\ n \in Coordinators
    /\ r = 1
    /\ reads' = [reads EXCEPT ![j] =
            [@ EXCEPT !.pc = "Done", !.node = n, !.key = key,
                      !.status = IF Exists(kvStore[n], key) THEN StatusOK ELSE StatusNotFound,
                      !.value = Get(kvStore[n], key).Value,
                      !.version = Get(kvStore[n], key).Version]]
    /\ kvStore' = [kvStore EXCEPT ![n].versionCounter = @ + 1]
    /\ floor' = [floor EXCEPT ![j] = MaxOf(AckedVersions(key))]
    /\ UNCHANGED <<backend, channel, later, replicated, topology, w, r, writes, sent, applied, overlapped, queried>>

\* Read with r == 1 (both topologies): the coordinator's own Get, nothing else
ReadLocal(j, n, key) ==
    /\ ArrivesRead(j)
    /\ KeyInOrder(key)
    /\ n \in Coordinators
    /\ r = 1
    /\ reads' = [reads EXCEPT ![j] =
            [@ EXCEPT !.pc = "Done", !.node = n, !.key = key,
                      !.status = IF Exists(kvStore[n], key) THEN StatusOK ELSE StatusNotFound,
                      !.value = Get(kvStore[n], key).Value,
                      !.version = Get(kvStore[n], key).Version]]
    /\ floor' = [floor EXCEPT ![j] = MaxOf(AckedVersions(key))]
    /\ UNCHANGED <<backend, channel, later, replicated, topology, w, r, kvStore, writes, sent, applied, overlapped, queried>>

\* LeaderNode.Read with r > 1, up to the loop: results holds the leader's pair
\* when the key exists, and nodesRead is 1 either way
LeaderReadBegin(j, key) ==
    /\ ArrivesRead(j)
    /\ KeyInOrder(key)
    /\ topology = "lf"
    /\ r # 1
    /\ reads' = [reads EXCEPT ![j] =
            [@ EXCEPT !.pc = "Collecting", !.node = Leader, !.key = key,
                      !.results = IF Exists(kvStore[Leader], key)
                                  THEN <<Get(kvStore[Leader], key)>> ELSE <<>>,
                      !.nodesRead = 1, !.next = 1]]
    /\ floor' = [floor EXCEPT ![j] = MaxOf(AckedVersions(key))]
    /\ UNCHANGED <<backend, channel, later, replicated, topology, w, r, kvStore, writes, sent, applied, overlapped, queried>>

\* the loop of LeaderNode.Read has a follower to ask
LeaderLoopRuns(j) ==
    /\ topology = "lf"
    /\ reads[j].pc = "Collecting"
    /\ reads[j].next <= Len(followerURLs)
    /\ reads[j].nodesRead < r

\* one iteration: readFromFollower returns the follower's pair (its /local_read
\* answered 200)
LeaderReadFollower(j) ==
    /\ LeaderLoopRuns(j)
    /\ LET rd == reads[j]
           follower == followerURLs[rd.next]
       IN /\ Exists(kvStore[follower], rd.key)
          /\ reads' = [reads EXCEPT ![j] =
                  [@ EXCEPT !.results = Append(@, Get(kvStore[follower], rd.key)),
                            !.nodesRead = @ + 1, !.next = @ + 1]]
          /\ queried' = [queried EXCEPT ![j] = @ \cup {follower}]
    /\ UNCHANGED <<backend, channel, later, replicated, topology, w, r, kvStore, writes, sent, applied, overlapped, floor>>

\* one iteration: the follower has no such key, its /local_read answers 404 and
\* readFromFollower returns an error; the follower is skipped and not counted
LeaderReadFollowerNotFound(j) ==
    /\ LeaderLoopRuns(j)
    /\ ~Exists(kvStore[followerURLs[reads[j].next]], reads[j].key)
    /\ reads' = [reads EXCEPT ![j] = [@ EXCEPT !.next = @ + 1]]
    /\ queried' = [queried EXCEPT ![j] = @ \cup {followerURLs[reads[j].next]}]
    /\ UNCHANGED <<backend, channel, later, replicated, topology, w, r, kvStore, writes, sent, applied, overlapped, floor>>

\* one iteration: the follower is unreachable and readFromFollower returns an
\* error; the follower is skipped and not counted (for a follower without the
\* key the outcome is that of LeaderReadFollowerNotFound)
LeaderReadFollowerErr(j) ==
    /\ LeaderLoopRuns(j)
    /\ Exists(kvStore[followerURLs[reads[j].next]], reads[j].key)
    /\ reads' = [reads EXCEPT ![j] = [@ EXCEPT !.next = @ + 1]]
    /\ queried' = [queried EXCEPT ![j] = @ \cup {followerURLs[reads[j].next]}]
    /\ UNCHANGED <<backend, channel, later, replicated, topology, w, r, kvStore, writes, sent, applied, overlapped, floor>>

\* LeaderNode.Read returns after the loop
LeaderReadReturn(j) ==
    /\ topology = "lf"
    /\ reads[j].pc = "Collecting"
    /\ ~LeaderLoopRuns(j)
    /\ LET res == ReadResult(reads[j].nodesRead, reads[j].results)
       IN reads' = [reads EXCEPT ![j] =
              [@ EXCEPT !.pc = "Done", !.status = res.status,
                        !.nodesRead = 0, !.results = <<>>, !.next = 1, !.i = 0,
                        !.value = res.value, !.version = res.version]]
    /\ UNCHANGED <<backend, channel, later, replicated, topology, w, r, kvStore, writes, sent, applied, overlapped, queried, floor>>

\* LeaderlessNode.Read with r > 1, up to the collection loop: the channel is made
\* and one goroutine per node (the local one and one per peer) is started
totalNodes(n) == Len(peerURLs(n)) + 1

PeerReadBegin(j, n, key) ==
    /\ ArrivesRead(j)
    /\ KeyInOrder(key)
    /\ topology = "ll"
    /\ r # 1
    /\ reads' = [reads EXCEPT ![j] =
            [@ EXCEPT !.pc = "Collecting", !.node = n, !.key = key,
                      !.pending = Nodes, !.i = 0,
                      !.results = <<>>, !.nodesRead = 0]]
    /\ floor' = [floor EXCEPT ![j] = MaxOf(AckedVersions(key))]
    /\ UNCHANGED <<backend, channel, later, replicated, topology, w, r, kvStore, writes, sent, applied, overlapped, queried>>

\* the collection loop of LeaderlessNode.Read goes on
PeerLoopRuns(j) ==
    /\ topology = "ll"
    /\ reads[j].pc = "Collecting"
    /\ reads[j].i < totalNodes(reads[j].node)
    /\ reads[j].nodesRead < r

\* The goroutine for node m sends its readResult and the loop receives it.  The
\* channel has room for every goroutine (capacity len(peerURLs)+1), so a send
\* never waits, and the loop takes the results in the order they were sent:
\* a result counts as received when it is sent.  A goroutine that is still
\* running when the loop has stopped sends into a channel nobody reads.
Send(j, m, result) ==
    /\ PeerLoopRuns(j)
    /\ m \in reads[j].pending
    /\ reads' = [reads EXCEPT ![j] =
            [@ EXCEPT !.pending = @ \ {m}, !.i = @ + 1,
                      !.results = IF result.found THEN Append(@, result.pair) ELSE @,
                      !.nodesRead = IF result.found THEN @ + 1 ELSE @]]

\* the goroutine for node m got a pair: the local Get found the key, or
\* readFromPeer returned the peer's pair
QueryFound(j, m) ==
    /\ m \in reads[j].pending
    /\ Exists(kvStore[m], reads[j].key)
    /\ Send(j, m, [pair |-> Get(kvStore[m], reads[j].key), found |-> TRUE])
    /\ queried' = [queried EXCEPT ![j] = @ \cup ({m} \ {reads[j].node})]
    /\ UNCHANGED <<backend, channel, later, replicated, topology, w, r, kvStore, writes, sent, applied, overlapped, floor>>

\* a goroutine whose not-found answer counts towards the quorum
QueryNotFoundCounted(j, m) ==
    /\ m \in reads[j].pending
    /\ ~Exists(kvStore[m], reads[j].key)
    /\ PeerLoopRuns(j)
    /\ reads' = [reads EXCEPT ![j] =
            [@ EXCEPT !.pending = @ \ {m}, !.i = @ + 1, !.nodesRead = @ + 1]]
    /\ queried' = [queried EXCEPT ![j] = @ \cup ({m} \ {reads[j].node})]
    /\ UNCHANGED <<backend, channel, later, replicated, topology, w, r, kvStore, writes, sent, applied, overlapped, floor>>

\* the goroutine for node m got nothing: the local Get did not find the key, or
\* the peer answered 404 and readFromPeer returned an error
QueryNotFound(j, m) ==
    /\ m \in reads[j].pending
    /\ ~Exists(kvStore[m], reads[j].key)
    /\ Send(j, m, [pair |-> KVPair("", 0), found |-> FALSE])
    /\ queried' = [queried EXCEPT ![j] = @ \cup ({m} \ {reads[j].node})]
    /\ UNCHANGED <<backend, channel, later, replicated, topology, w, r, kvStore, writes, sent, applied, overlapped, floor>>

\* the goroutine for peer m got nothing: the peer is unreachable and readFromPeer
\* returned an error (for a peer without the key the outcome is that of
\* QueryNotFound)
QueryErr(j, m) ==
    /\ m \in reads[j].pending
    /\ m # reads[j].node
    /\ Exists(kvStore[m], reads[j].key)
    /\ Send(j, m, [pair |-> KVPair("", 0), found |-> FALSE])
    /\ queried' = [queried EXCEPT ![j] = @ \cup {m}]
    /\ UNCHANGED <<backend, channel, later, replicated, topology, w, r, kvStore, writes, sent, applied, overlapped, floor>>

\* LeaderlessNode.Read returns after the loop
PeerReadReturn(j) ==
    /\ topology = "ll"
    /\ reads[j].pc = "Collecting"
    /\ ~PeerLoopRuns(j)
    /\ LET res == ReadResult(reads[j].nodesRead, reads[j].results)
       IN reads' = [reads EXCEPT ![j] =
              [@ EXCEPT !.pc = "Done", !.status = res.status,
                        !.nodesRead = 0, !.results = <<>>, !.i = 0, !.pending = {},
                        !.value = res.value, !.version = res.version]]
    /\ UNCHANGED <<backend, channel, later, replicated, topology, w, r, kvStore, writes, sent, applied, overlapped, queried, floor>>

\* ------------------------------------------- Read, leaderless, the channel
\* a Read whose channel has room for the peers' results only
ChanReadBeginPeersOnly(j, n, key) ==
    /\ ArrivesRead(j)
    /\ KeyInOrder(key)
    /\ topology = "ll"
    /\ r # 1
    /\ reads' = [reads EXCEPT ![j] =
            [@ EXCEPT !.pc = "Collecting", !.node = n, !.key = key,
                      !.i = 0, !.results = <<>>, !.nodesRead = 0]]
    /\ channel' = [channel EXCEPT ![j] =
            [cap |-> Len(peerURLs(n)), buf |-> <<>>, tasks |-> Nodes, taken |-> 0]]
    /\ floor' = [floor EXCEPT ![j] = MaxOf(AckedVersions(key))]
    /\ UNCHANGED <<backend, later, replicated, topology, w, r, kvStore, writes, sent, applied, overlapped, queried>>

\* LeaderlessNode.Read with r > 1, up to the collection loop:
\* results := make(chan readResult, len(ln.peerURLs)+1), and one goroutine is
\* started for the local Get and one for every peer
ChanReadBegin(j, n, key) ==
    /\ ArrivesRead(j)
    /\ KeyInOrder(key)
    /\ topology = "ll"
    /\ r # 1
    /\ reads' = [reads EXCEPT ![j] =
            [@ EXCEPT !.pc = "Collecting", !.node = n, !.key = key,
                      !.i = 0, !.results = <<>>, !.nodesRead = 0]]
    /\ channel' = [channel EXCEPT ![j] =
            [cap |-> totalNodes(n), buf |-> <<>>, tasks |-> Nodes, taken |-> 0]]
    /\ floor' = [floor EXCEPT ![j] = MaxOf(AckedVersions(key))]
    /\ UNCHANGED <<backend, later, replicated, topology, w, r, kvStore, writes, sent, applied, overlapped, queried>>

\* the goroutine for node m sends result: results <- readResult{...}.  The send
\* needs room in the channel; the goroutine ends with it.  It is not tied to the
\* collection loop: a goroutine can send after Read has returned.
ChanSend(j, m, result) ==
    /\ m \in channel[j].tasks
    /\ Len(channel[j].buf) < channel[j].cap
    /\ channel' = [channel EXCEPT ![j] =
            [@ EXCEPT !.buf = Append(@, result), !.tasks = @ \ {m}]]

\* the goroutine for node m got a pair (the local Get, or readFromPeer)
TaskFound(j, m) ==
    /\ Exists(kvStore[m], reads[j].key)
    /\ ChanSend(j, m, [pair |-> Get(kvStore[m], reads[j].key), found |-> TRUE])
    /\ UNCHANGED <<backend, later, replicated, topology, w, r, kvStore, writes, reads, sent, applied, overlapped, queried, floor>>

\* the goroutine for node m found no record of the key (local Get: exists is
\* false; peer: 404, an error for readFromPeer)
TaskNotFound(j, m) ==
    /\ ~Exists(kvStore[m], reads[j].key)
    /\ ChanSend(j, m, [pair |-> KVPair("", 0), found |-> FALSE])
    /\ UNCHANGED <<backend, later, replicated, topology, w, r, kvStore, writes, reads, sent, applied, overlapped, queried, floor>>

\* the goroutine for peer m could not reach it: readFromPeer returned an error
TaskErr(j, m) ==
    /\ m # reads[j].node
    /\ Exists(kvStore[m], reads[j].key)
    /\ ChanSend(j, m, [pair |-> KVPair("", 0), found |-> FALSE])
    /\ UNCHANGED <<backend, later, replicated, topology, w, r, kvStore, writes, reads, sent, applied, overlapped, queried, floor>>

\* the collection loop has an iteration to run: i < totalNodes && nodesRead < ln.r
ChanLoopRuns(j) ==
    /\ topology = "ll"
    /\ reads[j].pc = "Collecting"
    /\ channel[j].cap # 0
    /\ reads[j].i < totalNodes(reads[j].node)
    /\ reads[j].nodesRead < r

\* one iteration of the collection loop: result := <-results, which needs a
\* result in the channel
ChanReceive(j) ==
    /\ ChanLoopRuns(j)
    /\ channel[j].buf # <<>>
    /\ LET result == Head(channel[j].buf)
       IN reads' = [reads EXCEPT ![j] =
              [@ EXCEPT !.i = @ + 1,
                        !.results = IF result.found THEN Append(@, result.pair) ELSE @,
                        !.nodesRead = IF result.found THEN @ + 1 ELSE @]]
    /\ channel' = [channel EXCEPT ![j] =
            [@ EXCEPT !.buf = Tail(@), !.taken = @ + 1]]
    /\ UNCHANGED <<backend, later, replicated, topology, w, r, kvStore, writes, sent, applied, overlapped, queried, floor>>

\* LeaderlessNode.Read returns after the loop; the goroutines that have not
\* sent yet go on
ChanReadReturn(j) ==
    /\ topology = "ll"
    /\ reads[j].pc = "Collecting"
    /\ channel[j].cap # 0
    /\ ~ChanLoopRuns(j)
    /\ LET res == ReadResult(reads[j].nodesRead, reads[j].results)
       IN reads' = [reads EXCEPT ![j] =
              [@ EXCEPT !.pc = "Done", !.status = res.status,
                        !.nodesRead = 0, !.results = <<>>, !.i = 0,
                        !.value = res.value, !.version = res.version]]
    /\ UNCHANGED <<backend, channel, later, replicated, topology, w, r, kvStore, writes, sent, applied, overlapped, queried, floor>>

\* ------------------------------------------------------- storage backends
\* the calls of S3Store.Set that have read the old object and not written yet
Putting == {c \in CallIds : backend.calls[c].pc = "Putting"}

\* Set(key, value, version) is called on both backends.  KVStore.Set runs as a
\* whole, under its mutex, and returns its version.  S3Store.Set has no lock:
\* its first half runs here (the Get of the old object and the choice of v), its
\* PutObject is a later step, and other calls can run in between.
S3SetBegin(c, key, version) ==
    /\ backend.calls[c].pc = "Idle"
    /\ \A c2 \in CallIds : c2 < c => backend.calls[c2].pc # "Idle"
    /\ backend' = [backend EXCEPT
            !.kv = Set(@, key, Value(c), version),
            !.calls = [c2 \in CallIds |->
                IF c2 = c
                THEN [pc |-> "Putting", key |-> key, version |-> version,
                      v |-> S3SetVersion(backend.s3, key, version),
                      kvRet |-> SetVersion(backend.kv, version), s3Ret |-> 0,
                      alone |-> Putting = {}]
                ELSE IF c2 \in Putting THEN [backend.calls[c2] EXCEPT !.alone = FALSE]
                ELSE backend.calls[c2]]]
    /\ UNCHANGED <<channel, later, replicated, topology, w, r, kvStore, writes, reads, sent,
                   applied, overlapped, queried, floor>>

\* second half of S3Store.Set: PutObject succeeds and v is returned
S3SetEnd(c) ==
    /\ c \in Putting
    /\ backend' = [backend EXCEPT
            !.s3 = PutObject(@, backend.calls[c].key, Value(c), backend.calls[c].v),
            !.calls[c].pc = "Done",
            !.calls[c].s3Ret = backend.calls[c].v]
    /\ UNCHANGED <<channel, later, replicated, topology, w, r, kvStore, writes, reads, sent,
                   applied, overlapped, queried, floor>>

\* second half of S3Store.Set: PutObject fails, Set returns (0, err) and the
\* bucket is as it was
S3SetErr(c) ==
    /\ c \in Putting
    /\ backend' = [backend EXCEPT !.calls[c].pc = "Failed", !.calls[c].s3Ret = 0]
    /\ UNCHANGED <<channel, later, replicated, topology, w, r, kvStore, writes, reads, sent,
                   applied, overlapped, queried, floor>>

\* ------------------------------------------------------------ properties
\* node n holds the record of write i: (Value(i), version of i) under the key of i
Holds(n, i) ==
    /\ Exists(kvStore[n], writes[i].key)
    /\ Get(kvStore[n], writes[i].key) = KVPair(Value(i), writes[i].version)
Holders(i) == {n \in Nodes : Holds(n, i)}

\* this step is the return of write i / its return with 201 / with 500
Returns(i) == writes[i].pc = "Replicating" /\ writes'[i].pc # "Replicating"
Acks(i) == writes[i].pc = "Replicating" /\ writes'[i].pc = "Acknowledged"
Fails(i) == writes[i].pc = "Replicating" /\ writes'[i].pc = "QuorumFailed"
\* this step sends a replicate request of write i
Sends(i) == Len(sent'[i]) > Len(sent[i])

\* read j returned 200 with the pair some write stored under the key read
PairWritten(j) ==
    \E i \in WriteIds :
        /\ writes[i].pc \notin {"Idle", "Rejected"}
        /\ writes[i].key = reads[j].key
        /\ writes[i].version = reads[j].version
        /\ Value(i) = reads[j].value

\* C1: leader-follower with W + R > N: a Read at the leader that begins after a
\* Write of the key was acknowledged with version n and returns 200 returns a
\* version >= n, with the value that was written under the version it returns.
C1_NoStaleReadAtLeader ==
    \A j \in ReadIds :
        (/\ topology = "lf"
         /\ w + r > NumNodes
         /\ reads[j].pc = "Done"
         /\ reads[j].status = StatusOK)
        => (reads[j].version >= floor[j] /\ PairWritten(j))

\* a quorum read at the leader returned the acknowledged version although the
\* follower it asked held an older version of the key
C1_Witness ==
    \E j \in ReadIds :
        /\ topology = "lf" /\ w + r > NumNodes /\ r > 1
        /\ reads[j].pc = "Done" /\ reads[j].status = StatusOK
        /\ floor[j] >= 2
        /\ reads[j].version >= floor[j]
        /\ \E f \in queried[j] :
              /\ Exists(kvStore[f], reads[j].key)
              /\ Get(kvStore[f], reads[j].key).Version < floor[j]

\* C2: leaderless with W + R > N: a Read with R > 1 that begins after a Write of
\* the key was acknowledged with version n and returns 200 returns a version >= n,
\* with the value that was written under the version it returns.
C2_NoStaleReadLeaderless ==
    \A j \in ReadIds :
        (/\ topology = "ll"
         /\ w + r > NumNodes
         /\ r > 1
         /\ reads[j].pc = "Done"
         /\ reads[j].status = StatusOK)
        => (reads[j].version >= floor[j] /\ PairWritten(j))

\* C3 (as claimed): when a Write returns 201 with version n, at least W nodes hold
\* (v, n) under the key at that instant, also with concurrent writes to the key.
C3_QuorumHoldsRecord ==
    [][\A i \in WriteIds : Acks(i) => Cardinality(Holders(i)) >= w]_vars

\* C3 (amended): when a Write returns 201 with version n, at least W nodes have
\* applied (v, n), and at least W nodes hold (v, n) at that instant when no other
\* write to the key was in flight between the local apply and the return.
C3_QuorumAppliedRecord ==
    [][\A i \in WriteIds :
          Acks(i) => /\ Cardinality(applied[i]) >= w
                     /\ ~overlapped[i] => Cardinality(Holders(i)) >= w]_vars

\* a write was acknowledged under W >= 2 and W nodes hold its record
C3_Witness ==
    \E i \in WriteIds :
        /\ writes[i].pc = "Acknowledged"
        /\ w >= 2
        /\ Cardinality(Holders(i)) >= w

\* C4: a Write returns 201 only after the local apply and the apply on at least
\* W - 1 distinct peers; with W = N every node has applied it before the return.
C4_AckAfterQuorumApplied ==
    [][\A i \in WriteIds :
          Acks(i) => /\ writes[i].node \in applied[i]
                     /\ Cardinality(applied[i] \ {writes[i].node}) >= w - 1
                     /\ w = NumNodes => applied[i] = Nodes]_vars

\* a write was acknowledged under W = N and every node holds its record
C4_Witness ==
    \E i \in WriteIds :
        /\ writes[i].pc = "Acknowledged"
        /\ w = NumNodes
        /\ Holders(i) = Nodes

\* the peers whose replication of write i succeeded
Succeeded(i) == applied[i] \ {writes[i].node}
\* the peers write i has tried
Tried(i) == {sent[i][x] : x \in 1..Len(sent[i])}
AllPeers(i) == Nodes \ {writes[i].node}

\* C5: a Write with a non-empty key returns 500 exactly when every peer has been
\* tried and 1 + (successful replications) < W; a failed replication leaves the
\* write in its loop; the 500 carries the version the local store assigned.
C5_QuorumNotMetExactly ==
    [][\A i \in WriteIds :
          /\ Returns(i) =>
                /\ Fails(i) <=> (Tried(i) = AllPeers(i)
                                  /\ 1 + Cardinality(Succeeded(i)) < w)
                /\ writes'[i].status = StatusInternalServerError <=> Fails(i)
                /\ writes'[i].version = writes[i].version
          /\ (Sends(i) /\ applied'[i] = applied[i]) =>
                /\ writes'[i].pc = "Replicating"
                /\ Tried(i) # AllPeers(i) => ~Returns(i)
          /\ (writes[i].pc = "Idle" /\ writes'[i].pc = "Replicating") =>
                /\ writes'[i].version >= 1
                /\ Get(kvStore'[writes'[i].node], writes'[i].key)
                      = KVPair(Value(i), writes'[i].version)]_vars

\* a write failed its quorum although one of its replications had succeeded
\* after an earlier one had failed
C5_Witness ==
    \E i \in WriteIds :
        /\ writes[i].pc = "QuorumFailed"
        /\ writes[i].status = StatusInternalServerError
        /\ writes[i].version >= 1
        /\ \E n \in Nodes : n # writes[i].node /\ Holds(n, i)
                              /\ \E m \in Nodes : m < n /\ m # writes[i].node /\ ~Holds(m, i)

\* this step is the whole of read j (it arrives and returns)
ReadsAtOnce(j) == reads[j].pc = "Idle" /\ reads'[j].pc = "Done"

\* C6: no rollback.  The return of a Write with 500 changes no store; at that
\* instant the coordinator holds (v, n) unless another write to the key was in
\* flight with it; no step removes a record, and a record changes only by the
\* apply of a write to its key; a Read with R = 1 at the coordinator of a failed
\* write returns (v, n) while the coordinator holds it.
C6_NoRollback ==
    [][/\ \A i \in WriteIds :
             Fails(i) => /\ kvStore' = kvStore
                         /\ ~overlapped[i] => Holds(writes[i].node, i)
       /\ \A n \in Nodes, k \in Keys :
             Exists(kvStore[n], k) =>
                /\ Exists(kvStore'[n], k)
                /\ Get(kvStore'[n], k) # Get(kvStore[n], k) =>
                      \E i \in WriteIds :
                          /\ writes'[i].pc = "Replicating" /\ writes'[i].key = k
                          /\ Get(kvStore'[n], k) = KVPair(Value(i), writes'[i].version)
                          /\ applied'[i] # applied[i]
       /\ \A j \in ReadIds, i \in WriteIds :
             (/\ ReadsAtOnce(j)
              /\ writes[i].pc = "QuorumFailed"
              /\ reads'[j].node = writes[i].node /\ reads'[j].key = writes[i].key
              /\ Holds(writes[i].node, i))
             => /\ reads'[j].status = StatusOK
                /\ reads'[j].value = Value(i)
                /\ reads'[j].version = writes[i].version]_vars

\* a write failed its quorum, its coordinator and one peer still hold its record,
\* and a Read with R = 1 at the coordinator returned it
C6_Witness ==
    \E i \in WriteIds, j \in ReadIds :
        /\ writes[i].pc = "QuorumFailed"
        /\ Holds(writes[i].node, i)
        /\ \E n \in Nodes \ {writes[i].node} : Holds(n, i)
        /\ reads[j].pc = "Done" /\ reads[j].status = StatusOK
        /\ reads[j].node = writes[i].node /\ reads[j].key = writes[i].key
        /\ reads[j].value = Value(i) /\ reads[j].version = writes[i].version

\* this step is the arrival of write i with an empty key
ArrivesEmpty(i) ==
    writes[i].pc = "Idle" /\ writes'[i].pc # "Idle" /\ writes'[i].key = EmptyKey

\* C7: a Write with an empty key returns 400 with version 0 at once; no store map
\* and no version counter changes and no replicate request is sent, then or later.
C7_EmptyKeyRejected ==
    [][\A i \in WriteIds :
          /\ ArrivesEmpty(i) =>
                /\ writes'[i].pc = "Rejected"
                /\ writes'[i].status = StatusBadRequest
                /\ writes'[i].version = 0
                /\ kvStore' = kvStore
                /\ sent' = sent /\ applied' = applied
          /\ writes[i].pc = "Rejected" =>
                /\ writes'[i] = writes[i]
                /\ sent'[i] = <<>> /\ applied'[i] = {}]_vars

\* a write with an empty key was rejected while a store already held a record
C7_Witness ==
    \E i \in WriteIds :
        /\ writes[i].pc = "Rejected" /\ writes[i].status = StatusBadRequest
        /\ writes[i].version = 0
        /\ \E n \in Nodes : kvStore[n].versionCounter >= 1 /\ DOMAIN kvStore[n].store # {}

InOrder(i) ==
    Sends(i) => sent'[i] = Append(sent[i], ReplicaSet(writes[i].node)[Len(sent[i]) + 1])

C10_LocalRead ==
    [][\A j \in ReadIds :
          (r = 1 /\ reads[j].pc = "Idle" /\ reads'[j].pc # "Idle") =>
            LET n == reads'[j].node
                k == reads'[j].key
            IN /\ reads'[j].pc = "Done"
               /\ queried'[j] = {}
               /\ kvStore' = kvStore
               /\ IF Exists(kvStore[n], k)
                  THEN /\ reads'[j].status = StatusOK
                       /\ reads'[j].value = kvStore[n].store[k].Value
                       /\ reads'[j].version = kvStore[n].store[k].Version
                  ELSE reads'[j].status = StatusNotFound]_vars

\* a Read with R = 1 returned 404 although a peer held the key
C10_Witness ==
    \E j \in ReadIds :
        /\ r = 1
        /\ reads[j].pc = "Done" /\ reads[j].status = StatusNotFound
        /\ queried[j] = {}
        /\ \E n \in Nodes \ {reads[j].node} : Exists(kvStore[n], reads[j].key)

\* this step is the return of a read with r > 1
QuorumReadReturns(j) == reads[j].pc = "Collecting" /\ reads'[j].pc = "Done"

\* the position in results of the first pair of greatest version
FirstGreatest(results) ==
    CHOOSE x \in 1..Len(results) :
        /\ \A y \in 1..Len(results) : results[y].Version <= results[x].Version
        /\ \A y \in 1..(x - 1) : results[y].Version < results[x].Version

\* C11: a Read with R > 1 that returns 200 returns the value and the version of
\* one collected pair: the pair of greatest version, and among several pairs of
\* that version the one collected first.
C11_ReadResolution ==
    [][\A j \in ReadIds :
          (QuorumReadReturns(j) /\ reads'[j].status = StatusOK) =>
            /\ Len(reads[j].results) >= 1
            /\ LET pair == reads[j].results[FirstGreatest(reads[j].results)]
               IN /\ reads'[j].value = pair.Value
                  /\ reads'[j].version = pair.Version]_vars

\* a leaderless Read over all nodes returned 200 while two nodes held the key
\* under the version returned with different values
C11_Witness ==
    \E j \in ReadIds :
        /\ topology = "ll" /\ r = NumNodes
        /\ reads[j].pc = "Done" /\ reads[j].status = StatusOK
        /\ \E n, m \in Nodes :
              /\ Exists(kvStore[n], reads[j].key)
              /\ Exists(kvStore[m], reads[j].key)
              /\ Get(kvStore[n], reads[j].key) = KVPair(reads[j].value, reads[j].version)
              /\ Get(kvStore[m], reads[j].key).Version = reads[j].version
              /\ Get(kvStore[m], reads[j].key).Value # reads[j].value

\* no write has named the key and no node holds it
NeverWritten(key) ==
    /\ \A i \in WriteIds : writes[i].pc = "Idle" \/ writes[i].key # key
    /\ \A n \in Nodes : ~Exists(kvStore[n], key)

\* C12 (as claimed): with every peer reachable, a Read of a key that was never
\* written returns 404, with R = 1 and with R > 1, in both topologies.
C12_NotFoundNeverWritten ==
    \A j \in ReadIds :
        (reads[j].pc = "Done" /\ NeverWritten(reads[j].key))
        => reads[j].status = StatusNotFound

\* the nodes whose answer read j has taken: the coordinator's own Get and the
\* peers asked (every peer that is asked answers when all are reachable)
Responses(j) ==
    IF topology = "lf" THEN 1 + Cardinality(queried[j]) ELSE reads[j].i

\* C13 (as claimed): with every peer reachable, a Read with R > 1 that has taken
\* the answers of at least R nodes, one of them a found record, returns 200,
\* also when fewer than R of them had the key.
C13_QuorumOverResponses ==
    [][\A j \in ReadIds :
          (/\ QuorumReadReturns(j)
           /\ Responses(j) >= r
           /\ Len(reads[j].results) >= 1)
          => reads'[j].status = StatusOK]_vars

\* every node has given its answer to read j
AllAnswered(j) ==
    IF topology = "lf" THEN reads[j].next > Len(followerURLs)
    ELSE reads[j].pending = {}

\* this step takes an answer for read j that is no found record
NonContributing(j) ==
    /\ reads[j].pc = "Collecting"
    /\ queried'[j] # queried[j] \/ reads'[j].pending # reads[j].pending
    /\ reads'[j].results = reads[j].results
    /\ ~QuorumReadReturns(j)

\* C14 (as claimed): a Read with R > 1 returns only when R found records are
\* collected or every node has answered; it returns 500 exactly when it collected
\* fewer than R found records; an answer that is no found record (peer
\* unreachable, or without the key) leaves the read collecting.
C14_QuorumOverFound ==
    [][\A j \in ReadIds :
          /\ QuorumReadReturns(j) =>
                /\ Len(reads[j].results) >= r \/ AllAnswered(j)
                /\ Len(reads[j].results) <= r
                /\ reads'[j].status = StatusInternalServerError
                      <=> Len(reads[j].results) < r
          /\ NonContributing(j) =>
                /\ reads'[j].pc = "Collecting"
                /\ reads'[j].nodesRead = reads[j].nodesRead
          /\ (reads[j].pc = "Collecting" /\ Len(reads[j].results) < r /\ ~AllAnswered(j))
                => reads'[j].pc = "Collecting"]_vars

\* this step is the arrival of a read with r > 1
QuorumReadBegins(j) == reads[j].pc = "Idle" /\ reads'[j].pc = "Collecting"

\* C14 (amended): a Read with R > 1 collects until its counter nodesRead reaches R
\* or every node has answered, and returns 500 exactly when the counter is below
\* R then.  A leaderless coordinator counts the found records; the leader counts
\* its own lookup as one answer whether or not it found the key, and a follower
\* only with a found record, so that the leader can return 200 over R - 1 found
\* records.  An answer that is no found record (peer unreachable, or without the
\* key) leaves the counter as it is and the read collecting.
C14_QuorumOverCounter ==
    [][\A j \in ReadIds :
          /\ QuorumReadBegins(j) =>
                LET n == reads'[j].node
                    found == IF Exists(kvStore[n], reads'[j].key) THEN 1 ELSE 0
                IN /\ Len(reads'[j].results) = (IF topology = "lf" THEN found ELSE 0)
                   /\ reads'[j].nodesRead = (IF topology = "lf" THEN 1 ELSE 0)
          /\ QuorumReadReturns(j) =>
                /\ reads[j].nodesRead >= r \/ AllAnswered(j)
                /\ reads[j].nodesRead <= r
                /\ reads'[j].status = StatusInternalServerError
                      <=> reads[j].nodesRead < r
                /\ topology = "ll" => Len(reads[j].results) = reads[j].nodesRead
                /\ topology = "lf" =>
                      Len(reads[j].results) \in {reads[j].nodesRead - 1, reads[j].nodesRead}
          /\ NonContributing(j) =>
                /\ reads'[j].pc = "Collecting"
                /\ reads'[j].nodesRead = reads[j].nodesRead
          /\ (/\ reads[j].pc = "Collecting" /\ reads'[j].pc = "Collecting"
              /\ reads'[j].results # reads[j].results) =>
                /\ Len(reads'[j].results) = Len(reads[j].results) + 1
                /\ reads'[j].nodesRead = reads[j].nodesRead + 1
          /\ (reads[j].pc = "Collecting" /\ reads[j].nodesRead < r /\ ~AllAnswered(j))
                => reads'[j].pc = "Collecting"]_vars

\* a Read with R > 1 returned 500 after every peer was asked, while the
\* coordinator and one peer hold the key and another peer does not
C14_Witness ==
    \E j \in ReadIds :
        /\ r > 1
        /\ reads[j].pc = "Done" /\ reads[j].status = StatusInternalServerError
        /\ queried[j] = Nodes \ {reads[j].node}
        /\ Exists(kvStore[reads[j].node], reads[j].key)
        /\ \E m \in queried[j] : Exists(kvStore[m], reads[j].key)
        /\ \E l \in queried[j] : ~Exists(kvStore[l], reads[j].key)

\* Get gives the same answer on every key of kv1 and of kv2
SameRecords(kv1, kv2) ==
    \A k \in Keys : /\ Exists(kv1, k) <=> Exists(kv2, k)
                    /\ Get(kv1, k) = Get(kv2, k)

\* C15: a replicate request (key, value, version) applied to a node twice in a
\* row, with no other Set on that node in between, leaves the node's store (Get
\* on every key) and its version counter as the first application left them.
C15_ReplicateIdempotent ==
    replicated.times >= 2 =>
        /\ SameRecords(kvStore[replicated.node], replicated.once)
        /\ kvStore[replicated.node].versionCounter = replicated.once.versionCounter

\* a replicate request was applied twice in a row to a node that holds its record
C15_Witness ==
    /\ replicated.times >= 2
    /\ replicated.status = StatusCreated
    /\ replicated.version >= 1
    /\ Get(kvStore[replicated.node], replicated.key)
          = KVPair(replicated.value, replicated.version)

\* this step applies a replicate request to node n: one of write i, or one from
\* outside the cluster
AppliesWrite(i, n) ==
    writes[i].pc = "Replicating" /\ n \in applied'[i] /\ n \notin applied[i]
AppliesOutside ==
    replicated'.count = replicated.count + 1 /\ replicated'.status = StatusCreated

\* C16: in every store the version counter is at least the version of every
\* record held, and no step decreases it; a replicated apply whose version is not
\* above the counter leaves the counter as it is.
C16_CounterBounds ==
    [][/\ \A n \in Nodes :
             /\ kvStore'[n].versionCounter >= kvStore[n].versionCounter
             /\ \A k \in DOMAIN kvStore'[n].store :
                   kvStore'[n].store[k].Version <= kvStore'[n].versionCounter
       /\ \A i \in WriteIds, n \in Nodes :
             (AppliesWrite(i, n) /\ writes[i].version <= kvStore[n].versionCounter)
             => kvStore'[n].versionCounter = kvStore[n].versionCounter
       /\ (AppliesOutside
           /\ replicated'.version <= kvStore[replicated'.node].versionCounter)
          => kvStore'[replicated'.node].versionCounter
                = kvStore[replicated'.node].versionCounter]_vars

\* a node holds the record of a replicate request whose version is below the
\* node's counter
C16_Witness ==
    /\ replicated.times >= 1
    /\ replicated.version >= 1
    /\ Get(kvStore[replicated.node], replicated.key)
          = KVPair(replicated.value, replicated.version)
    /\ replicated.version < kvStore[replicated.node].versionCounter

\* after is before with (value, version) under key and the counter at counter
PutEffect(before, after, key, value, version, counter) ==
    /\ after.versionCounter = counter
    /\ Exists(after, key) /\ Get(after, key) = KVPair(value, version)
    /\ \A k \in Keys \ {key} : /\ Exists(after, k) <=> Exists(before, k)
                                /\ Get(after, k) = Get(before, k)

MaxInt(a, b) == IF a > b THEN a ELSE b

\* C17: Set without a version returns counter + 1, stores (value, counter + 1)
\* under the key and leaves the counter at counter + 1; Set with the explicit
\* version e returns e, stores (value, e) under the key whatever the key held, and
\* leaves the counter at max(counter, e); no other key changes.
C17_PutResult ==
    [][/\ \A i \in WriteIds :
             (writes[i].pc = "Idle" /\ writes'[i].pc = "Replicating") =>
                LET n == writes'[i].node
                    c == kvStore[n].versionCounter
                IN /\ writes'[i].version = c + 1
                   /\ PutEffect(kvStore[n], kvStore'[n], writes'[i].key, Value(i),
                                c + 1, c + 1)
       /\ \A i \in WriteIds, n \in Nodes :
             AppliesWrite(i, n) =>
                PutEffect(kvStore[n], kvStore'[n], writes[i].key, Value(i),
                          writes[i].version,
                          MaxInt(kvStore[n].versionCounter, writes[i].version))
       /\ AppliesOutside =>
             LET n == replicated'.node
             IN /\ SetVersion(kvStore[n], Explicit(replicated'.version))
                      = replicated'.version
                /\ PutEffect(kvStore[n], kvStore'[n], replicated'.key,
                             replicated'.value, replicated'.version,
                             MaxInt(kvStore[n].versionCounter, replicated'.version))]_vars

\* a node holds the record of a replicate request under a key for which it had
\* stored, as the coordinator of a write, a record of a greater version
C17_Witness ==
    /\ replicated.times >= 1
    /\ Get(kvStore[replicated.node], replicated.key)
          = KVPair(replicated.value, replicated.version)
    /\ \E i \in WriteIds :
          /\ writes[i].pc \in {"Replicating", "Acknowledged", "QuorumFailed"}
          /\ writes[i].node = replicated.node
          /\ writes[i].key = replicated.key
          /\ writes[i].version > replicated.version

\* C18 (as claimed): no store ever holds a record under the empty key, whatever
\* path the Set came by, a replicate request with an empty key included.
C18_NoEmptyKeyRecord ==
    \A n \in Nodes : ~Exists(kvStore[n], EmptyKey)

\* C19 (as claimed): every record held has a version >= 1, and two records of one
\* key with the same version, on any two nodes, have the same value.
C19_VersionNamesValue ==
    \A n \in Nodes, k \in Keys :
        Exists(kvStore[n], k) =>
            /\ Get(kvStore[n], k).Version >= 1
            /\ \A m \in Nodes :
                  (/\ Exists(kvStore[m], k)
                   /\ Get(kvStore[m], k).Version = Get(kvStore[n], k).Version)
                  => Get(kvStore[m], k).Value = Get(kvStore[n], k).Value

ReadsWrite(j, i) ==
    /\ reads'[j].status = StatusOK
    /\ reads'[j].value = Value(i)
    /\ reads'[j].version = writes[i].version

\* C21 as stated: with R = 1, a Read of k at the coordinator of a Write(k, v)
\* that returned 201 with version n returns 200, v and n when no other write to
\* k was applied at that coordinator since the Write returned.
C21_ReadYourWriteSinceReturn ==
    [][\A j \in ReadIds : \A i \in WriteIds :
          (/\ ReadsAtOnce(j) /\ r = 1
           /\ writes[i].pc = "Acknowledged"
           /\ writes[i].node = reads'[j].node /\ writes[i].key = reads'[j].key
           /\ later[i] \in {"no", "in flight"})
          => ReadsWrite(j, i)]_vars

\* C21: read-your-write at the coordinator.  With R = 1, a Read of k at the
\* coordinator of a Write(k, v) that returned 201 with version n returns 200, v
\* and n when no other write to k was applied at that coordinator since the
\* local Set of the Write (a write applied while the Write was still replicating
\* counts as one).
C21_ReadYourWrite ==
    [][\A j \in ReadIds : \A i \in WriteIds :
          (/\ ReadsAtOnce(j) /\ r = 1
           /\ writes[i].pc = "Acknowledged"
           /\ writes[i].node = reads'[j].node /\ writes[i].key = reads'[j].key
           /\ later[i] = "no")
          => ReadsWrite(j, i)]_vars

\* a Read with R = 1 returned the record of an acknowledged write of its
\* coordinator, on a key another coordinator or an earlier write also wrote
C21_Witness ==
    \E j \in ReadIds : \E i \in WriteIds :
        /\ r = 1 /\ reads[j].pc = "Done" /\ reads[j].status = StatusOK
        /\ writes[i].pc = "Acknowledged" /\ later[i] = "no"
        /\ writes[i].node = reads[j].node /\ writes[i].key = reads[j].key
        /\ reads[j].value = Value(i) /\ reads[j].version = writes[i].version
        /\ \E i2 \in WriteIds \ {i} :
              writes[i2].key = writes[i].key /\ writes[i2].pc = "Acknowledged"

\* LocalRead of node n (GET /local_read): the node's own Get, 404 when absent
LocalRead(n, key) ==
    IF Exists(kvStore[n], key)
    THEN [status |-> StatusOK, value |-> Get(kvStore[n], key).Value,
          version |-> Get(kvStore[n], key).Version]
    ELSE [status |-> StatusNotFound, value |-> "", version |-> 0]

\* the answer of a local read that finds the record of write i
RecordOf(i) == [status |-> StatusOK, value |-> Value(i), version |-> writes[i].version]

\* this step applies a write to key other than write i, on some node
AppliesOther(i, key) ==
    \E i2 \in WriteIds \ {i} :
        /\ writes'[i2].key = key
        /\ applied'[i2] # applied[i2] /\ applied'[i2] # {}

\* C22: with W = N and no concurrent write to the same key, once Write(k, v) is
\* acknowledged with version n the local read of k on every node returns 200
\* with value v and version exactly n, and it keeps returning that on every node
\* until another write to k is applied.
C22_AckedEverywhere ==
    [][\A i \in WriteIds :
          /\ (Acks(i) /\ w = NumNodes /\ ~overlapped[i])
             => \A n \in Nodes : LocalRead(n, writes[i].key)' = RecordOf(i)
          /\ (writes[i].pc = "Acknowledged" /\ w = NumNodes /\ ~AppliesOther(i, writes[i].key))
             => \A n \in Nodes :
                   LocalRead(n, writes[i].key) = RecordOf(i)
                   => LocalRead(n, writes[i].key)' = RecordOf(i)]_vars

\* a write with W = N was acknowledged after an earlier write to the same key,
\* and every node's local read returns its record
C22_Witness ==
    \E i \in WriteIds :
        /\ w = NumNodes /\ writes[i].pc = "Acknowledged" /\ writes[i].version = 2
        /\ \A n \in Nodes : LocalRead(n, writes[i].key) = RecordOf(i)

\* no write is between its local Set and its return: every issued write has
\* returned and no replicate request is in flight
Quiescent == \A i \in WriteIds : writes[i].pc # "Replicating"

\* C23: eventual consistency.  With W = N and every peer reachable, once every
\* issued write has returned (writes to one key issued concurrently included),
\* every node's local record of every key is the record the coordinator holds
\* (the leader; in the leaderless topology every node coordinates).
C23_Converged ==
    (w = NumNodes /\ Quiescent)
    => \A key \in Keys : \A n \in Nodes : \A c \in Coordinators :
          LocalRead(n, key) = LocalRead(c, key)

\* write i is the only write issued on its key
OwnKey(i) == \A i2 \in WriteIds \ {i} : writes[i2].key # writes[i].key

\* C24: leaderless, every peer reachable.  Every write succeeds; once a write
\* whose key no other write uses is acknowledged, every node holds under that key
\* exactly the value and the version its coordinator returned, whatever writes
\* other coordinators make concurrently to other keys; and the record of a key
\* changes on a node only by the apply of a write to that very key.
C24_KeysIndependent ==
    [][topology = "ll" =>
        /\ \A i \in WriteIds : Returns(i) => Acks(i)
        /\ \A i \in WriteIds :
              (writes[i].pc = "Acknowledged" /\ OwnKey(i)')
              => \A n \in Nodes : LocalRead(n, writes[i].key)' = RecordOf(i)
        /\ \A n \in Nodes : \A key \in Keys :
              LocalRead(n, key)' # LocalRead(n, key)
              => \E i \in WriteIds :
                    /\ writes'[i].key = key
                    /\ n \in applied'[i] /\ n \notin applied[i]]_vars

\* leaderless: two coordinators wrote two keys concurrently (each assigned
\* version 1 before it saw the other's record), both writes were acknowledged
\* and every node holds both records
C24_Witness ==
    /\ topology = "ll"
    /\ \E i1, i2 \in WriteIds :
          /\ writes[i1].pc = "Acknowledged" /\ writes[i2].pc = "Acknowledged"
          /\ writes[i1].node # writes[i2].node
          /\ writes[i1].key = "a" /\ writes[i2].key = "b"
          /\ writes[i1].version = 1 /\ writes[i2].version = 1
          /\ \A n \in Nodes : /\ LocalRead(n, "a") = RecordOf(i1)
                               /\ LocalRead(n, "b") = RecordOf(i2)

\* C25: leader-follower with W = 1 and R = N (the deployment W = 1, R = 5 over
\* four followers), every follower reachable: a quorum Read of k at the leader
\* that begins after a Write of k was acknowledged succeeds, and returns the
\* latest acknowledged version of k with the value written under it.
C25_QuorumReadAfterLocalWrite ==
    \A j \in ReadIds :
        (/\ topology = "lf" /\ w = 1 /\ r = NumNodes
         /\ reads[j].pc = "Done"
         /\ floor[j] >= 1)
        => /\ reads[j].status = StatusOK
           /\ reads[j].version >= floor[j]
           /\ PairWritten(j)

\* C26: leader-follower: on every node, the leader and each follower, the
\* version recorded for a key never decreases (and the record never disappears),
\* whatever the interleaving of writes and replication applies.
C26_VersionsNeverDecrease ==
    [][topology = "lf" =>
        \A n \in Nodes : \A key \in Keys :
            Exists(kvStore[n], key)
            => /\ Exists(kvStore'[n], key)
               /\ Get(kvStore'[n], key).Version >= Get(kvStore[n], key).Version]_vars

\* the positions of a coordinated write: Received is "Idle" turning into
\* "Replicating" (the local Set is part of that step), LocalApplied and
\* Replicating are "Replicating", the outcomes are "Acknowledged" and "QuorumFailed"
Terminal == {"Acknowledged", "QuorumFailed", "Rejected", "Forbidden"}

\* C27: a coordinated write goes Received -> LocalApplied -> Replicating ->
\* Acknowledged or QuorumFailed and never back.  The coordinator's store is
\* written for it once, by the step that receives it; every replicate request of
\* it goes to a peer that has not had one (a failed one is not sent again), and
\* only a peer that was just sent one applies it; it returns once, with 201 or
\* 500; after that nothing of it changes, no replicate request is sent for it
\* and no node applies it.
C27_NoRetry ==
    [][\A i \in WriteIds :
          /\ writes[i].pc = "Idle"
             => /\ writes'[i].pc \in {"Idle", "Replicating", "Rejected", "Forbidden"}
                /\ writes'[i].pc = "Replicating"
                   => /\ applied'[i] = {writes'[i].node} /\ sent'[i] = <<>>
                      /\ kvStore'[writes'[i].node] =
                            Set(kvStore[writes'[i].node], writes'[i].key, Value(i), NoVersion)
          /\ writes[i].pc = "Replicating"
             => /\ writes'[i].pc \in {"Replicating", "Acknowledged", "QuorumFailed"}
                /\ writes'[i].node = writes[i].node /\ writes'[i].key = writes[i].key
                /\ writes'[i].version = writes[i].version
                /\ Sends(i)
                   => \E p \in Nodes \ ({writes[i].node} \cup Tried(i)) :
                         sent'[i] = Append(sent[i], p)
                /\ \A n \in Nodes :
                      AppliesWrite(i, n)
                      => /\ n # writes[i].node
                         /\ Sends(i) /\ n = sent'[i][Len(sent'[i])]
                /\ Returns(i)
                   => /\ ~Sends(i)
                      /\ kvStore' = kvStore
                      /\ writes'[i].status = IF writes'[i].pc = "Acknowledged"
                                            THEN StatusCreated
                                            ELSE StatusInternalServerError
          /\ writes[i].pc \in Terminal
             => /\ writes'[i] = writes[i]
                /\ sent[i] = <<>> /\ sent'[i] = <<>>
                /\ applied[i] = {} /\ applied'[i] = {}]_vars

\* leaderless with W = 2: a write was acknowledged although the replication to
\* its first peer failed; that peer was not tried again and has no record
C27_Witness ==
    \E i \in WriteIds :
        /\ topology = "ll" /\ w = 2
        /\ writes[i].pc = "Acknowledged" /\ writes[i].node = 1
        /\ ~Exists(kvStore[2], writes[i].key)
        /\ Holds(3, i)

\* C28: termination.  When every peer call returns and every request that can
\* take a step takes it in the end, every Write with a non-empty key that was
\* received ends Acknowledged or QuorumFailed and every Read that was received
\* ends with 200, 404 or 500, also with other requests running at the same time.
C28_Termination ==
    /\ \A i \in WriteIds :
          (writes[i].pc = "Replicating")
          ~> (writes[i].pc \in {"Acknowledged", "QuorumFailed"})
    /\ \A j \in ReadIds :
          (reads[j].pc = "Collecting")
          ~> (/\ reads[j].pc = "Done"
              /\ reads[j].status \in {StatusOK, StatusNotFound, StatusInternalServerError})

\* a write ended QuorumFailed and a quorum read ended, after failed peer calls
C28_Witness ==
    /\ \E i \in WriteIds : writes[i].pc = "QuorumFailed"
    /\ \E j \in ReadIds : reads[j].pc = "Done" /\ reads[j].status = StatusInternalServerError

\* the writes to key that the store of their coordinator has given a version
Assigned(key) ==
    {i \in WriteIds : /\ writes[i].pc \in {"Replicating", "Acknowledged", "QuorumFailed"}
                      /\ writes[i].key = key}

\* C29: leader-follower: the writes to one key at the leader, concurrent ones
\* included, have pairwise distinct versions that grow in the order in which
\* they took the store lock, and the leader's record of a key is always the
\* value and version of the write with the greatest version assigned to that
\* key so far (no record while no write to the key was applied).
C29_Serialized ==
    topology = "lf" =>
        \A key \in Keys :
            /\ \A i1, i2 \in Assigned(key) :
                  i1 < i2 => writes[i1].version < writes[i2].version
            /\ Assigned(key) = {} => ~Exists(kvStore[Leader], key)
            /\ \A i \in Assigned(key) :
                  (\A i2 \in Assigned(key) : writes[i2].version <= writes[i].version)
                  => LocalRead(Leader, key) = RecordOf(i)

\* two writes to one key are in flight at the leader together, with versions 1
\* and 2, and the leader holds the record of the second
C29_Witness ==
    /\ topology = "lf"
    /\ \E i1, i2 \in WriteIds :
          /\ writes[i1].pc = "Replicating" /\ writes[i2].pc = "Replicating"
          /\ writes[i1].key = writes[i2].key
          /\ writes[i1].version = 1 /\ writes[i2].version = 2
          /\ LocalRead(Leader, writes[i2].key) = RecordOf(i2)

\* C30: records are never torn.  In both topologies every record a node holds
\* under key k is the value of some Write(k, value) together with the version
\* the store of that write's coordinator assigned to it, and every Read with
\* R = 1 that returns 200 returns such a pair: never the value of one write with
\* the version of another.
C30_NeverTorn ==
    /\ \A n \in Nodes : \A key \in DOMAIN kvStore[n].store :
          \E i \in Assigned(key) : LocalRead(n, key) = RecordOf(i)
    /\ \A j \in ReadIds :
          (reads[j].pc = "Done" /\ reads[j].status = StatusOK) => PairWritten(j)

\* one node holds the record of one write to a key and another node the record
\* of another write to that key, and a Read returned one of the two pairs
C30_Witness ==
    \E i1, i2 \in WriteIds : \E n1, n2 \in Nodes : \E j \in ReadIds :
        /\ i1 # i2 /\ writes[i1].key = writes[i2].key
        /\ writes[i1].pc # "Idle" /\ writes[i2].pc # "Idle"
        /\ Holds(n1, i1) /\ Holds(n2, i2)
        /\ reads[j].pc = "Done" /\ reads[j].status = StatusOK
        /\ reads[j].key = writes[i1].key /\ reads[j].value = Value(i1)

\* this step receives write i and applies it on its coordinator
AppliesLocally(i) == writes[i].pc = "Idle" /\ writes'[i].pc = "Replicating"

\* C31: inconsistency window.  Every write with W > 1 passes, right after its
\* local Set and before it is acknowledged, through a state in which its
\* coordinator holds the new (value, version) while no peer holds it: the local
\* read of every peer returns not-found or the record of another write, which in
\* the leader-follower topology has an older version.
C31_InconsistencyWindow ==
    [][\A i \in WriteIds :
          (AppliesLocally(i) /\ w > 1)
          => /\ (LocalRead(writes[i].node, writes[i].key) = RecordOf(i))'
             /\ \A p \in Nodes \ {writes'[i].node} :
                   /\ (LocalRead(p, writes[i].key) # RecordOf(i))'
                   /\ topology = "lf"
                      => (LocalRead(p, writes[i].key).version < writes[i].version)']_vars

\* a write with W > 1 is not acknowledged yet; its coordinator holds its record,
\* one peer still returns an older version of the key and another not-found
C31_Witness ==
    \E i \in WriteIds : \E p1, p2 \in Nodes :
        /\ w > 1 /\ writes[i].pc = "Replicating"
        /\ LocalRead(writes[i].node, writes[i].key) = RecordOf(i)
        /\ p1 # writes[i].node /\ p2 # writes[i].node
        /\ LocalRead(p1, writes[i].key).status = StatusOK
        /\ LocalRead(p1, writes[i].key).version < writes[i].version
        /\ LocalRead(p2, writes[i].key).status = StatusNotFound

\* this step is a step of read j: it arrives, takes an answer or returns
ReadSteps(j) == reads'[j] # reads[j]

\* this step applies a write on node n
AppliedOn(n) == \E i \in WriteIds : n \in applied'[i] /\ n \notin applied[i]

\* C32: reads have no effect on any store.  No step of a Read, with R = 1 or
\* R > 1, changes a record or a version counter on any node (no read repair);
\* the store of a node, and with it the answer of its local read for every key,
\* changes only in a step that applies a write on that node.
C32_ReadsChangeNothing ==
    [][/\ \A j \in ReadIds : ReadSteps(j) => kvStore' = kvStore
       /\ \A n \in Nodes :
             ~AppliedOn(n)
             => /\ kvStore'[n] = kvStore[n]
                /\ \A key \in Keys : LocalRead(n, key)' = LocalRead(n, key)]_vars

\* a Read returned a record while one write was still replicating and another
\* had been acknowledged
C32_Witness ==
    /\ \E j \in ReadIds : reads[j].pc = "Done" /\ reads[j].status = StatusOK
    /\ \E i \in WriteIds : writes[i].pc = "Replicating"
    /\ \E i \in WriteIds : writes[i].pc = "Acknowledged"

\* every key a follower holds the leader holds too, with a version that is not
\* smaller
LeaderAhead ==
    \A n \in Nodes \ {Leader} : \A key \in DOMAIN kvStore[n].store :
        /\ Exists(kvStore[Leader], key)
        /\ Get(kvStore[n], key).Version <= Get(kvStore[Leader], key).Version

\* this step is the return of read j with 200, whatever r
ReadReturnsOK(j) ==
    /\ reads[j].pc # "Done" /\ reads'[j].pc = "Done"
    /\ reads'[j].status = StatusOK

\* the leader's own Get in read j found the key: results then begins with its
\* pair and has one pair per node counted
OwnGetFound(j) == reads[j].pc = "Collecting" /\ Len(reads[j].results) = reads[j].nodesRead

\* C33 as stated: leader-follower: every key a follower holds the leader holds
\* with a version that is not smaller, and every Read at the leader that
\* returns 200 returns exactly the leader's own local record: the pair the
\* leader's store holds when the Read returns, or the pair the leader's own Get
\* found in that Read.
C33_ReadIsLeaderRecord ==
    [][topology = "lf" =>
        /\ LeaderAhead'
        /\ \A j \in ReadIds :
              ReadReturnsOK(j)
              => \/ LocalRead(Leader, reads'[j].key) =
                       [status |-> StatusOK, value |-> reads'[j].value,
                        version |-> reads'[j].version]
                 \/ /\ OwnGetFound(j)
                    /\ reads[j].results[1] = KVPair(reads'[j].value, reads'[j].version)]_vars

\* C33: leader-follower: in every state, every key a follower holds the leader
\* holds too, with a version that is not smaller; and every Read at the leader
\* that returns 200 returns the pair of a write to that key whose version is at
\* most the version the leader holds when the Read returns: the leader's record
\* itself, or one the leader held before a later write to the key replaced it.
C33_LeaderAhead ==
    [][topology = "lf" =>
        /\ LeaderAhead'
        /\ \A j \in ReadIds :
              ReadReturnsOK(j)
              => /\ Exists(kvStore[Leader], reads'[j].key)
                 /\ reads'[j].version <= Get(kvStore[Leader], reads'[j].key).Version
                 /\ \E i \in Assigned(reads'[j].key) :
                       /\ reads'[j].value = Value(i)
                       /\ reads'[j].version = writes[i].version
                 /\ reads'[j].version = Get(kvStore[Leader], reads'[j].key).Version
                    => reads'[j].value = Get(kvStore[Leader], reads'[j].key).Value]_vars

\* a quorum read at the leader returned the leader's record while a follower
\* held an older version of the key
C33_Witness ==
    \E j \in ReadIds : \E n \in Nodes \ {Leader} :
        /\ topology = "lf" /\ r > 1
        /\ reads[j].pc = "Done" /\ reads[j].status = StatusOK
        /\ Exists(kvStore[n], reads[j].key)
        /\ Get(kvStore[n], reads[j].key).Version < Get(kvStore[Leader], reads[j].key).Version
        /\ reads[j].version = Get(kvStore[Leader], reads[j].key).Version

\* the writes, to whatever key, that the store of their coordinator has given
\* a version
AllAssigned == UNION {Assigned(key) : key \in Keys}

\* C34: leader-follower versions are unique over the whole store.  No two
\* writes the leader handled have the same version, and two records held
\* anywhere (leader or follower, same key or not) with the same version have the
\* same key and the same value.
C34_VersionsUnique ==
    topology = "lf" =>
        /\ \A i1, i2 \in AllAssigned :
              i1 # i2 => writes[i1].version # writes[i2].version
        /\ \A n1, n2 \in Nodes :
              \A k1 \in DOMAIN kvStore[n1].store : \A k2 \in DOMAIN kvStore[n2].store :
                  Get(kvStore[n1], k1).Version = Get(kvStore[n2], k2).Version
                  => /\ k1 = k2
                     /\ Get(kvStore[n1], k1).Value = Get(kvStore[n2], k2).Value

\* the leader handled writes to two keys; it and a follower hold both records,
\* with versions 1 and 2
C34_Witness ==
    /\ topology = "lf"
    /\ \E i1, i2 \in WriteIds : \E n \in Nodes \ {Leader} :
          /\ writes[i1].key = "a" /\ writes[i2].key = "b"
          /\ writes[i1].version = 1 /\ writes[i2].version = 2
          /\ Holds(Leader, i1) /\ Holds(Leader, i2)
          /\ Holds(n, i1) /\ Holds(n, i2)

\* node n has applied the replicate request of write i: it is among the nodes
\* that applied i while i is replicating, or it holds the record of i
HasReplicated(n, i) ==
    /\ writes[i].pc \in {"Replicating", "Acknowledged", "QuorumFailed"}
    /\ writes[i].node # n
    /\ n \in applied[i] \/ Holds(n, i)

\* C35: leaderless causal version order.  A write a node coordinates gets a
\* version greater than the version of every replicated write that node has
\* applied before; so a write received after another write was acknowledged
\* with W = N gets a strictly greater version, whichever node coordinates it.
C35_CausalVersions ==
    [][topology = "ll" =>
        \A i2 \in WriteIds : AppliesLocally(i2) =>
            \A i1 \in WriteIds \ {i2} :
                /\ HasReplicated(writes'[i2].node, i1)
                   => writes'[i2].version > writes[i1].version
                /\ (writes[i1].pc = "Acknowledged" /\ w = NumNodes)
                   => writes'[i2].version > writes[i1].version]_vars

\* leaderless with W = N: a write was acknowledged with version 1, and a write
\* another node coordinated afterwards has version 2
C35_Witness ==
    /\ topology = "ll" /\ w = NumNodes
    /\ \E i1, i2 \in WriteIds :
          /\ i1 < i2
          /\ writes[i1].pc = "Acknowledged" /\ writes[i1].version = 1
          /\ writes[i2].pc = "Replicating" /\ writes[i2].version = 2
          /\ writes[i1].node # writes[i2].node
          /\ ~overlapped[i2]

\* C36: a leaderless Read with R > 1 cannot deadlock or strand a query.  The
\* channel has capacity peers + 1; each of the peers + 1 goroutines sends one
\* result and none is lost (sent and waiting, not yet sent and received add up to
\* peers + 1); a goroutine that has not sent yet always finds room in the
\* channel, also after the loop has stopped at R found records; the loop
\* receives at most peers + 1 results, and whenever it waits on an empty channel
\* some goroutine has still to send.
C36_NoStrandedQuery ==
    \A j \in ReadIds :
        channel[j].cap # 0 =>
            /\ channel[j].cap = totalNodes(reads[j].node)
            /\ Len(channel[j].buf) + Cardinality(channel[j].tasks) + channel[j].taken
                  = totalNodes(reads[j].node)
            /\ channel[j].tasks # {} => Len(channel[j].buf) < channel[j].cap
            /\ channel[j].taken <= totalNodes(reads[j].node)
            /\ (ChanLoopRuns(j) /\ channel[j].buf = <<>>) => channel[j].tasks # {}

\* a Read returned 200 after receiving R results out of peers + 1, and the
\* remaining goroutine has sent its result into the channel nobody reads
C36_Witness ==
    \E j \in ReadIds :
        /\ reads[j].pc = "Done" /\ reads[j].status = StatusOK
        /\ r < NumNodes /\ channel[j].taken = r
        /\ channel[j].tasks = {}
        /\ Len(channel[j].buf) = NumNodes - r

\* C37: the object-store backend keeps the Put contract of the in-memory
\* store.  For Set calls over several keys, with and without explicit version,
\* made one after the other, S3Store.Set returns the version KVStore.Set
\* returns for the same call; and two Set calls without explicit version,
\* concurrent or not, never return the same version.
C37_SameContract ==
    /\ \A c \in CallIds :
          (backend.calls[c].pc = "Done" /\ backend.calls[c].alone)
          => backend.calls[c].s3Ret = backend.calls[c].kvRet
    /\ \A c1, c2 \in CallIds :
          (/\ c1 # c2
           /\ backend.calls[c1].pc = "Done" /\ backend.calls[c2].pc = "Done"
           /\ backend.calls[c1].version = NoVersion
           /\ backend.calls[c2].version = NoVersion)
          => backend.calls[c1].s3Ret # backend.calls[c2].s3Ret

\* -------------------------------------------------------- specifications
\* Write requests, in both topologies
NextWrite ==
    \/ \E i \in WriteIds, n \in Nodes : WriteEmptyKey(i, n)
    \/ \E i \in WriteIds, n \in Nodes, key \in Keys : WriteLocal(i, n, key)
    \/ \E i \in WriteIds : ReplicateOK(i)
    \/ \E i \in WriteIds : ReplicateFail(i)
    \/ \E i \in WriteIds : WriteReturn(i)

\* Read requests of a coordinator with r = 1
NextLocal ==
    \E j \in ReadIds, n \in Nodes, key \in ReadKeys : ReadLocal(j, n, key)

\* Read requests of the leader with r > 1
NextLeaderRead ==
    \/ \E j \in ReadIds, key \in ReadKeys : LeaderReadBegin(j, key)
    \/ \E j \in ReadIds : LeaderReadFollower(j)
    \/ \E j \in ReadIds : LeaderReadFollowerNotFound(j)
    \/ \E j \in ReadIds : LeaderReadFollowerErr(j)
    \/ \E j \in ReadIds : LeaderReadReturn(j)

\* Read requests of a leaderless node with r > 1
NextPeerRead ==
    \/ \E j \in ReadIds, n \in Nodes, key \in ReadKeys : PeerReadBegin(j, n, key)
    \/ \E j \in ReadIds, m \in Nodes : QueryFound(j, m)
    \/ \E j \in ReadIds, m \in Nodes : QueryNotFound(j, m)
    \/ \E j \in ReadIds, m \in Nodes : QueryErr(j, m)
    \/ \E j \in ReadIds : PeerReadReturn(j)

\* the servers' write endpoints: /set on every node and /replicate from any client
NextServer ==
    \/ \E i \in WriteIds, n \in Nodes, key \in Keys : handleSetForbidden(i, n, key)
    \/ \E n \in Nodes, key \in Keys, value \in Values, version \in Versions :
          handleReplicate(n, key, value, version)
    \/ \E n \in Nodes : handleReplicateForbidden(n)

Next == NextWrite \/ NextServer \/ NextLocal \/ NextLeaderRead \/ NextPeerRead

\* every request, both topologies
Spec == Init /\ [][Next]_vars

\* the write path alone, both topologies
SpecWrite == Init /\ [][NextWrite]_vars

\* coordinators configured with r = 1, both topologies
InitLocal == Init /\ r = 1
SpecLocal == InitLocal /\ [][NextWrite \/ NextLocal]_vars

\* the leader-follower topology
InitLeader == Init /\ topology = "lf"
SpecLeader == InitLeader /\ [][NextWrite \/ NextLocal \/ NextLeaderRead]_vars

\* the leaderless topology with majority quorums: W = 2 and R = 2
InitPeer == Init /\ topology = "ll" /\ w = 2 /\ r = 2
SpecPeer == InitPeer /\ [][NextWrite \/ NextPeerRead]_vars

\* coordinators configured with r > 1, both topologies
InitQuorum == Init /\ r # 1 /\ w = NumNodes
SpecQuorum == InitQuorum /\ [][NextWrite \/ NextLeaderRead \/ NextPeerRead]_vars

\* every request, with every peer reachable: no replicate request and no read
\* request to a peer fails
NextReachable ==
    \/ \E i \in WriteIds, n \in Nodes : WriteEmptyKey(i, n)
    \/ \E i \in WriteIds, n \in Nodes, key \in Keys : WriteLocal(i, n, key)
    \/ \E i \in WriteIds : ReplicateOK(i)
    \/ \E i \in WriteIds : WriteReturn(i)
    \/ \E j \in ReadIds, n \in Nodes, key \in ReadKeys : ReadLocal(j, n, key)
    \/ \E j \in ReadIds, key \in ReadKeys : LeaderReadBegin(j, key)
    \/ \E j \in ReadIds : LeaderReadFollower(j)
    \/ \E j \in ReadIds : LeaderReadFollowerNotFound(j)
    \/ \E j \in ReadIds : LeaderReadReturn(j)
    \/ \E j \in ReadIds, n \in Nodes, key \in ReadKeys : PeerReadBegin(j, n, key)
    \/ \E j \in ReadIds, m \in Nodes : QueryFound(j, m)
    \/ \E j \in ReadIds, m \in Nodes : QueryNotFound(j, m)
    \/ \E j \in ReadIds : PeerReadReturn(j)

SpecReachable == Init /\ [][NextReachable]_vars

\* Write requests with every peer reachable: no replicate request fails
NextWriteReachable ==
    \/ \E i \in WriteIds, n \in Nodes : WriteEmptyKey(i, n)
    \/ \E i \in WriteIds, n \in Nodes, key \in Keys : WriteLocal(i, n, key)
    \/ \E i \in WriteIds : ReplicateOK(i)
    \/ \E i \in WriteIds : WriteReturn(i)

\* the servers' write endpoints, both topologies.  No read is made and the
\* stores are the subject: every coordinator goes through its whole replica set
\* (w = N) and every replication is applied; a replicate request from outside
\* the cluster puts any record on any one node.
InitServer == Init /\ r = 1 /\ w = NumNodes
SpecServer == InitServer /\ [][NextWriteReachable \/ NextServer]_vars

\* Set calls on the two storage backends, over the non-empty keys, without
\* version or with a version from 1 to MaxVersion
NextStore ==
    \/ \E c \in CallIds, key \in ReadKeys : S3SetBegin(c, key, NoVersion)
    \/ \E c \in CallIds, key \in ReadKeys, version \in 1..MaxVersion :
          S3SetBegin(c, key, Explicit(version))
    \/ \E c \in CallIds : S3SetEnd(c)
    \/ \E c \in CallIds : S3SetErr(c)

\* one store of each kind, in a leader-follower node
InitStore == Init /\ topology = "lf" /\ w = 1 /\ r = 1
SpecStore == InitStore /\ [][NextStore]_vars

\* the steps of write i and of read j after their arrival: a peer call returns
\* (success or failure), the loop goes on, the request returns
WriteStep(i) == ReplicateOK(i) \/ ReplicateFail(i) \/ WriteReturn(i)

\* writes, and Read requests of a leaderless node with r > 1 with the channel
\* modelled; a request arrives while fewer than LiveRequests have
NextChannel ==
    \/ \E i \in WriteIds, n \in Nodes, key \in Keys :
          Requests < LiveRequests /\ WriteLocal(i, n, key)
    \/ \E i \in WriteIds : WriteStep(i)
    \/ \E j \in ReadIds, n \in Nodes, key \in ReadKeys :
          Requests < LiveRequests /\ ChanReadBegin(j, n, key)
    \/ \E j \in ReadIds, m \in Nodes : TaskFound(j, m)
    \/ \E j \in ReadIds, m \in Nodes : TaskNotFound(j, m)
    \/ \E j \in ReadIds, m \in Nodes : TaskErr(j, m)
    \/ \E j \in ReadIds : ChanReceive(j)
    \/ \E j \in ReadIds : ChanReadReturn(j)

\* leaderless writes and quorum reads, the goroutines and the channel of Read
\* taking their steps one by one
InitChannel == Init /\ topology = "ll" /\ r # 1
SpecChannel == InitChannel /\ [][NextChannel]_vars

ReadStep(j) ==
    \/ LeaderReadFollower(j) \/ LeaderReadFollowerNotFound(j) \/ LeaderReadFollowerErr(j)
    \/ LeaderReadReturn(j)
    \/ \E m \in Nodes : QueryFound(j, m) \/ QueryNotFound(j, m) \/ QueryErr(j, m)
    \/ PeerReadReturn(j)

\* a request arrives while fewer than LiveRequests have; the requests that
\* have arrived take their steps
NextLive ==
    \/ \E i \in WriteIds, n \in Nodes :
          Requests < LiveRequests /\ WriteEmptyKey(i, n)
    \/ \E i \in WriteIds, n \in Nodes, key \in Keys :
          Requests < LiveRequests /\ WriteLocal(i, n, key)
    \/ \E j \in ReadIds, key \in ReadKeys :
          Requests < LiveRequests /\ LeaderReadBegin(j, key)
    \/ \E j \in ReadIds, n \in Nodes, key \in ReadKeys :
          Requests < LiveRequests /\ PeerReadBegin(j, n, key)
    \/ \E i \in WriteIds : WriteStep(i)
    \/ \E j \in ReadIds : ReadStep(j)

\* writes and quorum reads with W = 2 and R = 2, both topologies, LiveRequests
\* requests in all, where every request that can take a step takes it in the
\* end: each handler runs in its own goroutine, every peer call returns and the
\* store lock is granted
InitLive == Init /\ w = 2 /\ r = 2
SpecLive ==
    /\ InitLive
    /\ [][NextLive]_vars
    /\ \A i \in WriteIds : WF_vars(WriteStep(i))
    /\ \A j \in ReadIds : WF_vars(ReadStep(j))

====
